---- MODULE Spec2Model ----
(***************************************************************************)
(* Exam composition and scoring engine of the reviewer backend             *)
(* (app/exam.py), with the settings, profile and question-bank handlers    *)
(* it depends on (app/admin.py, app/profile.py, app/questions.py).         *)
(*                                                                         *)
(* Conventions                                                             *)
(*  - Python str values are TLA+ strings; characters are strings of        *)
(*    length one, read with SubSeq.                                        *)
(*  - Python None is the model value NONE.                                 *)
(*  - A Python float that is the product of an int and a decimal literal   *)
(*    is modelled bit for bit (IEEE-754 binary64, round-half-even), see    *)
(*    FloatMul: the apportionment sorts on fractional parts of such        *)
(*    products, and their rounding noise decides ties.                     *)
(*  - A percentage is kept in hundredths (7500 is 75.00).                  *)
(***************************************************************************)
EXTENDS Integers, Sequences, FiniteSets, TLC

NONE == "<None>"

(***************************************************************************)
(* Python string primitives                                                *)
(***************************************************************************)
Capitals == "ABCDEFGHIJKLMNOPQRSTUVWXYZ"
Smalls == "abcdefghijklmnopqrstuvwxyz"
Digits == "0123456789"

CharAt(s, i) == SubSeq(s, i, i)

CharIn(c, s) == \E i \in 1..Len(s) : CharAt(s, i) = c

Chars(s) == {CharAt(s, i) : i \in 1..Len(s)}

\* the case pairs of the ASCII letters
LowerTable ==
    [c \in Chars(Capitals) |->
        CharAt(Smalls, CHOOSE i \in 1..Len(Capitals) : CharAt(Capitals, i) = c)]
UpperTable ==
    [c \in Chars(Smalls) |->
        CharAt(Capitals, CHOOSE i \in 1..Len(Smalls) : CharAt(Smalls, i) = c)]
AlnumChars == Chars(Capitals) \cup Chars(Smalls) \cup Chars(Digits)

\* str.lower() on one character
LowerChar(c) == IF c \in DOMAIN LowerTable THEN LowerTable[c] ELSE c

\* str.upper() on one character
UpperChar(c) == IF c \in DOMAIN UpperTable THEN UpperTable[c] ELSE c

RECURSIVE Upper(_)
Upper(s) == IF Len(s) = 0 THEN "" ELSE UpperChar(CharAt(s, 1)) \o Upper(SubSeq(s, 2, Len(s)))

RECURSIVE Lower(_)
Lower(s) == IF Len(s) = 0 THEN "" ELSE LowerChar(CharAt(s, 1)) \o Lower(SubSeq(s, 2, Len(s)))

IsAlnum(c) == c \in AlnumChars

IsSpace(c) == c = " "

RECURSIVE LStrip(_)
LStrip(s) ==
    IF Len(s) > 0 /\ IsSpace(CharAt(s, 1)) THEN LStrip(SubSeq(s, 2, Len(s))) ELSE s

RECURSIVE RStrip(_)
RStrip(s) ==
    IF Len(s) > 0 /\ IsSpace(CharAt(s, Len(s))) THEN RStrip(SubSeq(s, 1, Len(s) - 1)) ELSE s

\* str.strip()
Strip(s) == RStrip(LStrip(s))

StartsWith(s, p) == Len(s) >= Len(p) /\ SubSeq(s, 1, Len(p)) = p

EndsWith(s, p) == Len(s) >= Len(p) /\ SubSeq(s, Len(s) - Len(p) + 1, Len(s)) = p

\* (value or ""): None and "" both give ""
OrEmpty(v) == IF v = NONE THEN "" ELSE v

\* "".join(ch for ch in s if ch.isalnum())
RECURSIVE KeepAlnum(_)
KeepAlnum(s) ==
    IF Len(s) = 0 THEN ""
    ELSE (IF IsAlnum(CharAt(s, 1)) THEN CharAt(s, 1) ELSE "") \o KeepAlnum(SubSeq(s, 2, Len(s)))

\* "".join(ch if ch.isalnum() or ch.isspace() else " " for ch in s)
RECURSIVE PunctToSpace(_)
PunctToSpace(s) ==
    IF Len(s) = 0 THEN ""
    ELSE (IF IsAlnum(CharAt(s, 1)) \/ IsSpace(CharAt(s, 1)) THEN CharAt(s, 1) ELSE " ")
         \o PunctToSpace(SubSeq(s, 2, Len(s)))

\* str.split(): the maximal runs of non-space characters, in order
RECURSIVE SplitFrom(_, _)
SplitFrom(s, cur) ==
    IF Len(s) = 0 THEN (IF cur = "" THEN << >> ELSE << cur >>)
    ELSE IF IsSpace(CharAt(s, 1))
         THEN (IF cur = "" THEN << >> ELSE << cur >>) \o SplitFrom(SubSeq(s, 2, Len(s)), "")
         ELSE SplitFrom(SubSeq(s, 2, Len(s)), cur \o CharAt(s, 1))

Split(s) == SplitFrom(s, "")

RECURSIVE JoinAll(_)
JoinAll(tokens) == IF Len(tokens) = 0 THEN "" ELSE Head(tokens) \o JoinAll(Tail(tokens))

(***************************************************************************)
(* Label normalizer                                                        *)
(***************************************************************************)
GENED_LABEL == "General Education"
PROFED_LABEL == "Professional Education"

Aliases ==
    << <<"socialscience", "socialstudies">>, <<"socialstudies", "socialstudies">>,
       <<"socialscie", "socialstudies">>, <<"socialsci", "socialstudies">>,
       <<"socsci", "socialstudies">>, <<"mathematics", "math">>, <<"math", "math">>,
       <<"mathema", "math">>, <<"mathem", "math">>, <<"english", "english">>,
       <<"filipino", "filipino">>, <<"science", "science">>,
       <<"professionaleducation", "professionaleducation">>,
       <<"professionaledu", "professionaleducation">>,
       <<"professional", "professionaleducation">>, <<"profed", "professionaleducation">>,
       <<"generaleducation", "gened">>, <<"generale", "gened">>, <<"general", "gened">>,
       <<"gened", "gened">> >>

\* the alias of a cleaned label, or the cleaned label itself
Canonical(cleaned) ==
    IF \E i \in 1..Len(Aliases) : Aliases[i][1] = cleaned
    THEN Aliases[CHOOSE i \in 1..Len(Aliases) : Aliases[i][1] = cleaned][2]
    ELSE cleaned

normalize_label(value) ==
    IF value = NONE \/ value = "" THEN "" ELSE Canonical(KeepAlnum(Lower(value)))

QualifierWords ==
    {"major", "specialization", "specialisation", "track", "let", "secondary", "elementary"}

RECURSIVE DropQualifiers(_)
DropQualifiers(tokens) ==
    IF Len(tokens) = 0 THEN << >>
    ELSE (IF Head(tokens) \in QualifierWords THEN << >> ELSE << Head(tokens) >>)
         \o DropQualifiers(Tail(tokens))

normalize_major_candidate(value) ==
    IF value = NONE \/ value = "" THEN ""
    ELSE normalize_label(JoinAll(DropQualifiers(Split(PunctToSpace(Lower(value))))))

\* the comparison of labels_equivalent on the normalized forms of a and b
NormalizedMatch(a_norm, b_norm, a_major, b_major) ==
    \/ a_norm = b_norm
    \/ EndsWith(a_norm, "s") /\ SubSeq(a_norm, 1, Len(a_norm) - 1) = b_norm
    \/ EndsWith(b_norm, "s") /\ SubSeq(b_norm, 1, Len(b_norm) - 1) = a_norm
    \/ a_major # "" /\ b_major # "" /\ a_major = b_major

\* a comparison of the normalized labels alone
LabelsEqualWhenNormalized(a, b) == normalize_label(a) = normalize_label(b)

labels_equivalent(a, b) ==
    IF a = NONE \/ a = "" \/ b = NONE \/ b = "" THEN FALSE
    ELSE NormalizedMatch(normalize_label(a), normalize_label(b),
                         normalize_major_candidate(a), normalize_major_candidate(b))

(***************************************************************************)
(* IEEE-754 binary64 products  n * float("0.pct")                          *)
(*                                                                         *)
(* A decimal literal such as 0.40 is the binary64 nearest to 40/100; an    *)
(* int times that float is the exact product rounded to 53 significant     *)
(* bits, ties to even.  A value is kept in fixed point: an integer part    *)
(* and FracLimbs digits of LimbBits bits each after the binary point.      *)
(***************************************************************************)
MantissaBits == 53
LimbBits == 14
FracLimbs == 5
LimbBase == 2 ^ LimbBits
FracBits == FracLimbs * LimbBits

\* the first k digits of r/den after the point, by long division (0 <= r < den)
RECURSIVE ExpandLimbs(_, _, _)
ExpandLimbs(r, den, k) ==
    IF k = 0 THEN << >>
    ELSE << (r * LimbBase) \div den >> \o ExpandLimbs((r * LimbBase) % den, den, k - 1)

\* what is left of r/den after those k digits, as a numerator over den
RECURSIVE RemainderAfter(_, _, _)
RemainderAfter(r, den, k) ==
    IF k = 0 THEN r ELSE RemainderAfter((r * LimbBase) % den, den, k - 1)

\* number of bits of a natural number below 2^30
BitLen(n) == IF n = 0 THEN 0 ELSE CHOOSE k \in 1..30 : 2 ^ (k - 1) <= n /\ n < 2 ^ k

\* digits that may exceed the base, brought back below it; the carry out is the integer part
RECURSIVE Carry(_, _)
Carry(limbs, c) ==
    IF Len(limbs) = 0 THEN [int |-> c, frac |-> << >>]
    ELSE LET t == limbs[Len(limbs)] + c
             rest == Carry(SubSeq(limbs, 1, Len(limbs) - 1), t \div LimbBase)
         IN  [int |-> rest.int, frac |-> rest.frac \o << t % LimbBase >>]

\* fraction bits a binary64 keeps for the value int + 0.frac
KeptFracBits(int, frac) ==
    IF int > 0 THEN MantissaBits - BitLen(int)
    ELSE LET j == CHOOSE i \in 1..Len(frac) : frac[i] # 0 /\ \A h \in 1..(i - 1) : frac[h] = 0
         IN  (j * LimbBits - BitLen(frac[j])) + MantissaBits

\* the value v with n added to its integer part
Plus(n, v) == [int |-> n + v.int, frac |-> v.frac]

\* int + 0.frac with the last `drop` bits of the fraction rounded away, ties to even
RoundOff(int, frac, sticky, drop) ==
    IF drop <= 0 THEN [int |-> int, frac |-> frac]
    ELSE LET low == frac[FracLimbs - 1] * LimbBase + frac[FracLimbs]
             q == low \div (2 ^ drop)
             rem == low % (2 ^ drop)
             half == 2 ^ (drop - 1)
             up == rem > half \/ (rem = half /\ (sticky \/ q % 2 = 1))
             rounded == (IF up THEN q + 1 ELSE q) * (2 ^ drop)
         IN  Plus(int, Carry(SubSeq(frac, 1, FracLimbs - 2)
                               \o << rounded \div LimbBase, rounded % LimbBase >>, 0))

\* int + 0.frac (+ something below the last digit when sticky) rounded to binary64
RoundToDouble(int, frac, sticky) ==
    IF int = 0 /\ \A i \in 1..Len(frac) : frac[i] = 0 THEN [int |-> 0, frac |-> frac]
    ELSE RoundOff(int, frac, sticky, FracBits - KeptFracBits(int, frac))

\* float("0.pct") for 0 <= pct < 100, as its digits after the point
DecimalToDouble(pct) ==
    RoundToDouble(0, ExpandLimbs(pct, 100, FracLimbs),
                  RemainderAfter(pct, 100, FracLimbs) # 0).frac

\* the float nearest to the exact value v
Rounded(v) == RoundToDouble(v.int, v.frac, FALSE)

\* the exact product of n and the float with fraction digits d
Times(n, d) == Carry([i \in 1..FracLimbs |-> d[i] * n], 0)

\* n * float("0.pct"), 0 <= n < 256
FloatMul(n, pct) == Rounded(Times(n, DecimalToDouble(pct)))

\* f < g for the fraction digits of two floats
FracLess(f, g) ==
    \E i \in 1..FracLimbs : f[i] < g[i] /\ \A j \in 1..(i - 1) : f[j] = g[j]

(***************************************************************************)
(* Sequence helpers (Python list comprehensions, reversed, set of ids)     *)
(***************************************************************************)
Reverse(s) == [i \in 1..Len(s) |-> s[Len(s) + 1 - i]]

Ids(qs) == {qs[i]._id : i \in 1..Len(qs)}

\* a filter that forgets the ids already taken
WithoutIdsKeepingAll(qs, ids) == qs

\* [q for q in qs if q["_id"] not in ids]
WithoutIds(qs, ids) == SelectSeq(qs, LAMBDA q : q._id \notin ids)

\* the elements of s at the positions idxs, in the order of s
RECURSIVE PickFrom(_, _, _)
PickFrom(s, idxs, i) ==
    IF i > Len(s) THEN << >>
    ELSE (IF i \in idxs THEN << s[i] >> ELSE << >>) \o PickFrom(s, idxs, i + 1)

AtPositions(s, idxs) == PickFrom(s, idxs, 1)

RECURSIVE SumSeq(_)
SumSeq(s) == IF Len(s) = 0 THEN 0 ELSE Head(s) + SumSeq(Tail(s))

(***************************************************************************)
(* Subject filter and bucket classifier                                    *)
(***************************************************************************)
RECURSIVE NormalizeSubjects(_, _)
NormalizeSubjects(subjects, major) ==
    IF Len(subjects) = 0 THEN << >>
    ELSE LET subject == Head(subjects)
             lowered == Lower(Strip(subject))
             here == IF subject = NONE \/ subject = "" THEN << >>
                     ELSE IF lowered \in {"specialization", "major"}
                          THEN (IF major # "" THEN << major >> ELSE << >>)
                     ELSE IF lowered \in {"gened", "general education"}
                          THEN << GENED_LABEL, "General Education" >>
                     ELSE IF lowered \in {"profed", "professional education", "professional ed"}
                          THEN << PROFED_LABEL, "ProfEd", "Professional Ed" >>
                     ELSE << Strip(subject) >>
         IN  here \o NormalizeSubjects(Tail(subjects), major)

\* de-duplicate while preserving order, dropping empty items
RECURSIVE Dedup(_, _)
Dedup(items, seen) ==
    IF Len(items) = 0 THEN << >>
    ELSE IF Head(items) # "" /\ Head(items) \notin seen
         THEN << Head(items) >> \o Dedup(Tail(items), seen \cup {Head(items)})
         ELSE Dedup(Tail(items), seen)

build_subject_filter(profile, subjects) ==
    IF profile.target_licensure # "LET" THEN subjects
    ELSE LET major == Strip(OrEmpty(profile.major_specialization))
             normalized == NormalizeSubjects(subjects, major)
             fallback == << GENED_LABEL, "General Education", PROFED_LABEL, "ProfEd",
                            "Professional Ed" >>
                         \o (IF major # "" THEN << major >> ELSE << >>)
         IN  Dedup(IF Len(normalized) = 0 THEN fallback ELSE normalized, {})

\* the branches of subject_bucket_for on the stripped and lowered fields
\* a classifier that looks for the major before the two education signals
BucketOfMajorFirst(licensure, subject, subject_lower, topic, major, is_subject, is_topic) ==
    IF licensure # "LET"
    THEN (IF subject # "" THEN subject ELSE "General")
    ELSE IF major # "" /\ (is_subject \/ is_topic)
    THEN major
    ELSE IF \/ subject_lower \in {"profed", "professional education", "professional ed"}
            \/ StartsWith(subject_lower, "prof")
            \/ StartsWith(topic, "professional education")
    THEN PROFED_LABEL
    ELSE IF \/ subject_lower \in {"gened", "general education"}
            \/ StartsWith(subject_lower, "gen")
    THEN GENED_LABEL
    ELSE IF major # "" THEN NONE
    ELSE "Specialization"

BucketOf(licensure, subject, subject_lower, topic, major, is_subject, is_topic) ==
    IF licensure # "LET"
    THEN (IF subject # "" THEN subject ELSE "General")
    ELSE IF \/ subject_lower \in {"profed", "professional education", "professional ed"}
            \/ StartsWith(subject_lower, "prof")
            \/ StartsWith(topic, "professional education")
    THEN PROFED_LABEL
    ELSE IF \/ subject_lower \in {"gened", "general education"}
            \/ StartsWith(subject_lower, "gen")
            \/ StartsWith(subject_lower, "general")
    THEN GENED_LABEL
    ELSE IF major # ""
    THEN (IF is_subject \/ is_topic
          THEN major
          ELSE IF /\ subject_lower \in {"specialization", "specialisation", "major"}
                  /\ is_topic
          THEN major
          ELSE NONE)
    ELSE "Specialization"

\* subject_bucket_for on the stripped subject, the lowered topic and the stripped major
BucketFor(licensure, subject, topic, major) ==
    BucketOf(licensure, subject, Lower(subject), topic, major,
             labels_equivalent(subject, major), labels_equivalent(topic, major))

subject_bucket_for(question, profile) ==
    BucketFor(profile.target_licensure, Strip(OrEmpty(question.subject)),
              Lower(Strip(OrEmpty(question.topic))),
              Strip(OrEmpty(profile.major_specialization)))

(***************************************************************************)
(* Difficulty policy                                                       *)
(* A weight is held as its two decimals: 40 is the literal 0.40.           *)
(***************************************************************************)
DIFFICULTY_LEVELS == << "Easy", "Medium", "Hard" >>
LevelSet == {DIFFICULTY_LEVELS[i] : i \in 1..Len(DIFFICULTY_LEVELS)}
DEFAULT_DIFFICULTY_MIX == [Easy |-> 40, Medium |-> 40, Hard |-> 20]
PASS_DIFFICULTY_MIX == [Easy |-> 20, Medium |-> 40, Hard |-> 40]
FAIL_DIFFICULTY_MIX == [Easy |-> 60, Medium |-> 30, Hard |-> 10]

\* the policy with the two verdicts exchanged
MixWithVerdictsSwapped(latest_result) ==
    IF latest_result = << >> THEN DEFAULT_DIFFICULTY_MIX
    ELSE IF latest_result[1].result = "PASS" THEN FAIL_DIFFICULTY_MIX
    ELSE PASS_DIFFICULTY_MIX

\* latest_result is the list the query returned: empty, or the one latest document
difficulty_mix_for_result(latest_result) ==
    IF latest_result = << >> THEN DEFAULT_DIFFICULTY_MIX
    ELSE LET result == Upper(OrEmpty(latest_result[1].result))
         IN  IF result = "PASS" THEN PASS_DIFFICULTY_MIX
             ELSE IF result = "FAIL" THEN FAIL_DIFFICULTY_MIX
             ELSE DEFAULT_DIFFICULTY_MIX

(***************************************************************************)
(* Quota planner: largest remainder over float products                    *)
(***************************************************************************)
\* positions 1..Len(fracs) in the order of sorted(..., key=frac, reverse=True):
\* descending fraction, equal fractions in their original order (the sort is stable)
SortedDescending(fracs) ==
    LET n == Len(fracs)
        before(i, j) == FracLess(fracs[j], fracs[i]) \/ (fracs[i] = fracs[j] /\ i < j)
        place(i) == 1 + Cardinality({j \in 1..n : j # i /\ before(j, i)})
    IN  [p \in 1..n |-> CHOOSE i \in 1..n : place(i) = p]

\* the whole remainder given to the level with the largest fraction
HandOutAllToFirst(counts, order, remainder) ==
    [i \in 1..Len(counts) |->
        counts[i] + (IF order[1] = i /\ remainder > 0 THEN remainder ELSE 0)]

\* for x in order: if remainder <= 0: break; counts[x] += 1; remainder -= 1
HandOut(counts, order, remainder) ==
    [i \in 1..Len(counts) |->
        counts[i] + (IF \E p \in 1..Len(order) : order[p] = i /\ p <= remainder THEN 1 ELSE 0)]

\* counts = int(raw), the remainder handed out by descending fractional part
LargestRemainder(total, raw) ==
    HandOut([i \in 1..Len(raw) |-> raw[i].int],
            SortedDescending([i \in 1..Len(raw) |-> raw[i].frac]),
            total - SumSeq([i \in 1..Len(raw) |-> raw[i].int]))

\* a list over DIFFICULTY_LEVELS as the dict keyed by level
ByLevel(final) ==
    [level \in LevelSet |->
        final[CHOOSE i \in 1..Len(DIFFICULTY_LEVELS) : DIFFICULTY_LEVELS[i] = level]]

allocate_by_weight(total, weights) ==
    IF total <= 0 THEN [level \in LevelSet |-> 0]
    ELSE ByLevel(LargestRemainder(total,
            [i \in 1..Len(DIFFICULTY_LEVELS) |->
                FloatMul(total, weights[DIFFICULTY_LEVELS[i]])]))

\* allocate_by_weight tabulated for the three policy mixes and the totals up to
\* TabulatedTotals, so that a state's exploration reads the quota instead of redoing
\* the float arithmetic; any other argument is computed
TabulatedTotals == 16
QuotaTable ==
    [total \in 0..TabulatedTotals |->
        [weights \in {DEFAULT_DIFFICULTY_MIX, PASS_DIFFICULTY_MIX, FAIL_DIFFICULTY_MIX} |->
            allocate_by_weight(total, weights)]]

\* the entry of `table` for the arguments, or the computed quota when it has none
QuotaFrom(table, total, weights) ==
    IF total \in DOMAIN table /\ weights \in DOMAIN table[total]
    THEN table[total][weights]
    ELSE allocate_by_weight(total, weights)

Quota(total, weights) == QuotaFrom(QuotaTable, total, weights)

(***************************************************************************)
(* Sampler                                                                 *)
(* random.sample(options, need) returns `need` distinct elements in an     *)
(* arbitrary order.  Every subset is modelled; of its orders, the order of *)
(* the pool and its reverse.                                               *)
(***************************************************************************)
Sample(options, need) ==
    LET picks == {AtPositions(options, S) :
                    S \in {T \in SUBSET (1..Len(options)) : Cardinality(T) = need}}
    IN  picks \cup {Reverse(c) : c \in picks}

NotEnough(needed, label, available) ==
    [ok |-> FALSE, questions |-> << >>, needed |-> needed, label |-> label,
     available |-> available]

Selected(qs) ==
    [ok |-> TRUE, questions |-> qs, needed |-> 0, label |-> NONE, available |-> 0]

\* a per-difficulty loop that takes nothing from a level that is short
RECURSIVE PerLevelSkippingShort(_, _, _, _)
PerLevelSkippingShort(groups, desired, i, selected) ==
    IF i > Len(DIFFICULTY_LEVELS) THEN {selected}
    ELSE LET level == DIFFICULTY_LEVELS[i]
             need == desired[level]
             options == WithoutIds(groups[level], Ids(selected))
         IN  IF need <= 0 \/ Len(options) < need
             THEN PerLevelSkippingShort(groups, desired, i + 1, selected)
             ELSE UNION {PerLevelSkippingShort(groups, desired, i + 1, selected \o chosen) :
                           chosen \in Sample(options, need)}

\* the lists `selected` can be after the per-difficulty loop has handled levels i..
RECURSIVE PerLevel(_, _, _, _)
PerLevel(groups, desired, i, selected) ==
    IF i > Len(DIFFICULTY_LEVELS) THEN {selected}
    ELSE LET level == DIFFICULTY_LEVELS[i]
             need == desired[level]
             options == WithoutIds(groups[level], Ids(selected))
         IN  IF need <= 0 THEN PerLevel(groups, desired, i + 1, selected)
             ELSE IF Len(options) <= need
                  THEN PerLevel(groups, desired, i + 1, selected \o options)
                  ELSE UNION {PerLevel(groups, desired, i + 1, selected \o chosen) :
                                chosen \in Sample(options, need)}

\* a selection that stops after the per-difficulty loop
FillNothing(pool, total, selected) == {Selected(selected)}

\* the fill-up after the loop, for one value of `selected`
FillRemaining(pool, total, selected) ==
    LET remaining == total - Len(selected)
        remaining_pool == WithoutIds(pool, Ids(selected))
    IN  IF remaining > 0
        THEN (IF Len(remaining_pool) < remaining
              THEN {NotEnough(total, NONE, Len(pool))}
              ELSE {Selected(selected \o extra) : extra \in Sample(remaining_pool, remaining)})
        ELSE {Selected(selected)}

\* a selection without the fill-up, which fails when the levels do not supply the total
SelectFromLevelsOnly(pool, total, weights) ==
    IF total <= 0 THEN {Selected(<< >>)}
    ELSE IF Len(pool) < total THEN {NotEnough(total, NONE, Len(pool))}
    ELSE {IF Len(selected) < total THEN NotEnough(total, NONE, Len(pool))
          ELSE Selected(selected) :
            selected \in PerLevel([level \in LevelSet |->
                                     SelectSeq(pool, LAMBDA q : q.difficulty = level)],
                                  Quota(total, weights), 1, << >>)}

\* every outcome of select_questions_with_mix(pool, total, weights)
select_questions_with_mix(pool, total, weights) ==
    IF total <= 0 THEN {Selected(<< >>)}
    ELSE IF Len(pool) < total THEN {NotEnough(total, NONE, Len(pool))}
    ELSE UNION {UNION {FillRemaining(pool, total, selected) :
                         selected \in PerLevel(groups, desired, 1, << >>)} :
                  groups \in {[level \in LevelSet |->
                                 SelectSeq(pool, LAMBDA q : q.difficulty = level)]},
                  desired \in {Quota(total, weights)}}

(***************************************************************************)
(* Scoring arithmetic                                                      *)
(* A percentage is held in hundredths: 6667 is 66.67.                      *)
(***************************************************************************)
\* the percentage cut to two decimals instead of rounded
Round2Truncating(score, total) == (score * 10000) \div total

\* round((score / total) * 100, 2): the nearest hundredth, a tie to the even one
Round2(score, total) ==
    LET n == score * 10000
        q == n \div total
        r == n % total
    IN  IF 2 * r < total THEN q
        ELSE IF 2 * r > total THEN q + 1
        ELSE IF q % 2 = 0 THEN q ELSE q + 1

(***************************************************************************)
(* The deployment the model explores: a question bank, the accounts, the   *)
(* profile forms students post, the settings forms the admin posts.        *)
(* Fields no exam operation reads (names, year level, timestamps of        *)
(* profiles and questions) are left out of the documents.                  *)
(***************************************************************************)
Question(id, exam_type, subject, topic, difficulty, answer) ==
    [_id |-> id, exam_type |-> exam_type, subject |-> subject, topic |-> topic,
     difficulty |-> difficulty, question |-> "Q-" \o id,
     a |-> "a-" \o id, b |-> "b-" \o id, c |-> "c-" \o id, d |-> "d-" \o id,
     answer |-> answer]

Bank ==
    << Question("g1", "LET", "GenEd", "Reading", "Easy", "B"),
       Question("g2", "LET", "General Education", "Math", "Easy", "A"),
       Question("g3", "LET", "GenEd", "Science", "Medium", "C"),
       Question("g4", "LET", "gened", "Math", "Medium", "B"),
       Question("g5", "LET", "GenEd", "Science", "Hard", "C"),
       Question("g6", "LET", "GenEd", "", "Hard", "A"),
       Question("p1", "LET", "ProfEd", "Teaching", "Easy", "A"),
       Question("p2", "LET", "Professional Education", "Assessment", "Easy", "D"),
       Question("p3", "LET", "ProfEd", "Curriculum", "Medium", "B"),
       Question("p4", "LET", "Professional Ed", "Teaching", "Medium", "A"),
       Question("p5", "LET", "ProfEd", "Assessment", "Hard", "C"),
       Question("p6", "LET", "ProfEd", "Curriculum", "Hard", "B"),
       Question("m1", "LET", "Mathematics", "Algebra", "Easy", "B"),
       Question("m2", "LET", "Specialization", "Math", "Medium", "A"),
       Question("m3", "LET", "Major in Mathematics", "Geometry", "Hard", "D"),
       Question("e1", "LET", "English", "Grammar", "Easy", "A"),
       Question("x1", "LET", "Elementary", "Grammar", "Easy", "A"),
       Question("f1", "CPA", "FAR", "Assets", "Easy", "C"),
       Question("f2", "CPA", "FAR", "Leases", "Easy", "A"),
       Question("f3", "CPA", "FAR", "Equity", "Medium", "B"),
       Question("f4", "CPA", "FAR", "Revenue", "Hard", "D"),
       Question("t1", "CPA", "Taxation", "VAT", "Easy", "C"),
       Question("t2", "CPA", "Taxation", "Income", "Medium", "A"),
       Question("t3", "CPA", "Taxation", "Estate", "Hard", "B"),
       Question("a1", "CPA", "Auditing", "Opinion", "Easy", "D"),
       Question("a2", "CPA", "Auditing", "Evidence", "Medium", "A"),
       Question("a3", "CPA", "Auditing", "Risk", "Hard", "B"),
       Question("r1", "CPA", "RFBT", "Contracts", "Easy", "B"),
       Question("r2", "CPA", "RFBT", "Sales", "Medium", "C") >>

\* n questions of one subject, topic and difficulty, with ids prefix1 .. prefixn
Batch(prefix, n, exam_type, subject, topic, difficulty) ==
    [i \in 1..n |-> Question(prefix \o ToString(i), exam_type, subject, topic, difficulty, "A")]

\* a bank that holds what the default totals ask for: 25 General Education, 25
\* Professional Education, 50 Mathematics and 50 FAR questions in the proportions of the
\* default mix, and two LET questions outside the General and Professional subjects
LargeBank ==
    Batch("ge", 10, "LET", "GenEd", "Reading", "Easy")
    \o Batch("gm", 10, "LET", "GenEd", "Reading", "Medium")
    \o Batch("gh", 5, "LET", "GenEd", "Reading", "Hard")
    \o Batch("pe", 10, "LET", "ProfEd", "Teaching", "Easy")
    \o Batch("pm", 10, "LET", "ProfEd", "Teaching", "Medium")
    \o Batch("ph", 5, "LET", "ProfEd", "Teaching", "Hard")
    \o Batch("me", 20, "LET", "Mathematics", "Algebra", "Easy")
    \o Batch("mm", 20, "LET", "Mathematics", "Algebra", "Medium")
    \o Batch("mh", 10, "LET", "Mathematics", "Algebra", "Hard")
    \o << Question("en1", "LET", "English", "Grammar", "Easy", "A"),
          Question("el1", "LET", "Elementary", "Grammar", "Easy", "A") >>
    \o Batch("fe", 20, "CPA", "FAR", "Assets", "Easy")
    \o Batch("fm", 20, "CPA", "FAR", "Assets", "Medium")
    \o Batch("fh", 10, "CPA", "FAR", "Assets", "Hard")

\* the strings bson.ObjectId accepts; any other key of an answer sheet raises InvalidId
WellFormedIds == Ids(Bank)

Students == {"s1", "s2"}
Admins == {"admin"}

Form(licensure, track, major, subjects, threshold) ==
    [target_licensure |-> licensure, let_track |-> track, major_specialization |-> major,
     assigned_review_subjects |-> subjects, required_passing_threshold |-> threshold]

LetElementary == Form("LET", "Elementary", "", << "GenEd", "ProfEd" >>, 75)
LetSecondaryMath ==
    Form("LET", "Secondary", "Mathematics", << "GenEd", "ProfEd", "Specialization" >>, 75)
CpaForm == Form("CPA", NONE, "Accountancy", << "FAR", "Taxation", "Auditing" >>, 75)
CpaMasForm == Form("CPA", NONE, "Accountancy", << "MAS" >>, 75)
CertForm == Form("Internal Certification", NONE, "Core", << "Core" >>, 80)
\* forms save_profile turns down
LetNoTrack == Form("LET", NONE, "Mathematics", << "GenEd" >>, 75)
CpaBadSubjects == Form("CPA", NONE, "Accountancy", << "GenEd" >>, 75)

\* profile documents of the store that save_profile no longer writes: a LET profile
\* without a major, on the secondary track, on no track, and on the elementary track
SecondaryNoMajor == Form("LET", "Secondary", "", << "GenEd", "ProfEd" >>, 75)
NoTrackNoMajor == Form("LET", NONE, NONE, << "GenEd", "ProfEd" >>, 75)
ElementaryNoMajor == Form("LET", "Elementary", "", << "GenEd", "ProfEd" >>, 75)

\* subject_bucket_for tabulated for the questions of Bank and the licensure and major
\* of the forms above; any other question or profile is computed
TabulatedQuestions ==
    {<< Bank[i].subject, Bank[i].topic >> : i \in 1..Len(Bank)}
    \cup {<< LargeBank[i].subject, LargeBank[i].topic >> : i \in 1..Len(LargeBank)}
TabulatedProfiles ==
    {<< "LET", "Elementary" >>, << "LET", "Mathematics" >>, << "CPA", "Accountancy" >>,
     << "Internal Certification", "Core" >>, << "LET", "" >>}
BucketTable ==
    [p \in TabulatedProfiles |->
        [q \in TabulatedQuestions |->
            subject_bucket_for([subject |-> q[1], topic |-> q[2]],
                               [target_licensure |-> p[1], major_specialization |-> p[2]])]]

\* the entry of `table` for the question and the profile, or the computed bucket
BucketFrom(table, q, p, question, profile) ==
    IF p \in DOMAIN table /\ q \in DOMAIN table[p] THEN table[p][q]
    ELSE subject_bucket_for(question, profile)

Bucket(question, profile) ==
    BucketFrom(BucketTable, << question.subject, question.topic >>,
               << profile.target_licensure, profile.major_specialization >>,
               question, profile)

SettingsForm(minutes, count, major) ==
    [exam_time_limit_minutes |-> minutes, exam_question_count |-> count,
     exam_major_question_count |-> major]

DefaultSettings == SettingsForm(90, 50, 50)

\* a settings document stored before exam_major_question_count existed
SettingsWithoutMajorCount == [exam_time_limit_minutes |-> 90, exam_question_count |-> 49]

(***************************************************************************)
(* State: the collections of the database, the wall clock, the start-up    *)
(* position of each application instance, and the last response produced.  *)
(* student_profiles maps the users who have a profile to it; audit_logs    *)
(* keeps which (user, action) events the trail holds.                      *)
(***************************************************************************)
VARIABLES student_profiles, questions, app_settings, exam_results, audit_logs,
          now, instances, resp

vars == << student_profiles, questions, app_settings, exam_results, audit_logs,
           now, instances, resp >>

Instances == {"i1", "i2"}

NoResponse == [op |-> "none", user |-> NONE, status |-> 0]

HttpError(op, user, status, detail) ==
    [op |-> op, user |-> user, status |-> status, detail |-> detail]

\* await log_event_async(db, user_id, action, detail)
log_event_async(user_id, action) == audit_logs \cup {<< user_id, action >>}

\* db.questions.find({"exam_type": exam_type, "subject": {"$in": subject_filter}})
\* the query on the exam type alone, whatever the subject filter
FindQuestionsOfType(exam_type, subject_filter, filtered) ==
    SelectSeq(questions, LAMBDA q : q.exam_type = exam_type)

FindQuestions(exam_type, subject_filter, filtered) ==
    SelectSeq(questions,
              LAMBDA q : /\ q.exam_type = exam_type
                         /\ filtered =>
                              \E i \in 1..Len(subject_filter) : subject_filter[i] = q.subject)

\* db.exam_results.find({user_id, exam_type}).sort("created_at", -1).limit(1)
LatestResult(user, exam_type) ==
    LET mine == {i \in 1..Len(exam_results) :
                   exam_results[i].user_id = user /\ exam_results[i].exam_type = exam_type}
    IN  IF mine = {} THEN << >>
        ELSE << exam_results[CHOOSE i \in mine :
                  \A j \in mine : exam_results[j].created_at <= exam_results[i].created_at] >>

\* the base split of a LET exam: General Education 50%, Professional Education 50%
LetSplitLabels == << GENED_LABEL, PROFED_LABEL >>
LetSplitPercent == 50

\* the split with the odd unit going to the second bucket
LetSplitCountsOddToSecond(base_total) == << base_total \div 2, base_total - base_total \div 2 >>

LetSplitCounts(base_total) ==
    LargestRemainder(base_total,
        [i \in 1..Len(LetSplitLabels) |-> FloatMul(base_total, LetSplitPercent)])

\* buckets after the loop over question_list: each label with its questions in list order
\* the major bucket taking every question that is neither General nor Professional
\* Education, whatever its classification
FillBucketsMajorTakesRest(question_list, profile, labels) ==
    [label \in labels |->
        SelectSeq(question_list,
                  LAMBDA q : IF label \in {GENED_LABEL, PROFED_LABEL}
                             THEN Bucket(q, profile) = label
                             ELSE Bucket(q, profile) \notin {GENED_LABEL, PROFED_LABEL})]

FillBuckets(question_list, profile, labels) ==
    [label \in labels |-> SelectSeq(question_list, LAMBDA q : Bucket(q, profile) = label)]

\* a view that sends the stored document as it is
WholeDocument(q) == q

\* what the student is sent for one question
StudentView(q) ==
    [id |-> q._id, question |-> q.question, a |-> q.a, b |-> q.b, c |-> q.c, d |-> q.d,
     difficulty |-> q.difficulty]

Composed(user, base_total, extra_major_count, difficulty_mix, chosen, exam_questions) ==
    [op |-> "start_exam", user |-> user, status |-> 200,
     base_total |-> base_total, extra_major_count |-> extra_major_count,
     difficulty_mix |-> difficulty_mix, chosen |-> chosen,
     exam_questions |-> exam_questions,
     payload |-> [i \in 1..Len(exam_questions) |-> StudentView(exam_questions[i])]]

NotEnoughError(user, needed, label, available) ==
    HttpError("start_exam", user, 400,
              << "Not enough questions available for this track.", needed, label, available >>)

DefaultQuestionCount == 50
DefaultMajorCount == 50

\* db.app_settings.find_one({}): empty, or the first document
FindSettingsDocument == SubSeq(app_settings, 1, IF Len(app_settings) > 0 THEN 1 ELSE 0)

\* totals that add the major items to every exam
ExamTotalsExtraForAll(settings, secondary) ==
    [base_total |-> IF Len(settings) > 0 THEN settings[1].exam_question_count
                    ELSE DefaultQuestionCount,
     extra_major_count |->
        IF Len(settings) > 0 /\ "exam_major_question_count" \in DOMAIN settings[1]
        THEN settings[1].exam_major_question_count ELSE DefaultMajorCount]

\* base_total and extra_major_count, from the settings document that was found
ExamTotals(settings, secondary) ==
    [base_total |-> IF Len(settings) > 0 THEN settings[1].exam_question_count
                    ELSE DefaultQuestionCount,
     extra_major_count |->
        IF ~secondary THEN 0
        ELSE IF Len(settings) > 0 /\ "exam_major_question_count" \in DOMAIN settings[1]
        THEN settings[1].exam_major_question_count ELSE DefaultMajorCount]

\* a check that lets every profile through
MajorNeverRequired(secondary, major) == FALSE

\* if exam_type == "LET" and not is_elementary: if not major: raise
MajorRequired(secondary, major) == secondary /\ major = ""

\* the LET branch of start_exam: the two base buckets in turn, then the extra major items
ComposeLet(user, profile, question_list, base_total, extra_count, major, elementary, mix) ==
    LET labels == {GENED_LABEL, PROFED_LABEL}
                  \cup (IF major # "" /\ ~elementary THEN {major} ELSE {})
        Get(filled, label) == IF label \in labels THEN filled[label] ELSE << >>
        FromSelection(o, then(_)) ==
            IF o.ok THEN then(o.questions)
            ELSE {NotEnoughError(user, o.needed, o.label, o.available)}
        Extra(buckets, gened, profed) ==
            IF major # "" /\ extra_count # 0
            THEN LET major_pool == WithoutIds(Get(buckets, major), Ids(gened \o profed))
                 IN  IF Len(major_pool) < extra_count
                     THEN {NotEnoughError(user, extra_count, "Major", Len(major_pool))}
                     ELSE UNION {FromSelection(o,
                                    LAMBDA extra :
                                      {Composed(user, base_total, extra_count, mix,
                                                << gened, profed, extra >>,
                                                gened \o profed \o extra)}) :
                                 o \in select_questions_with_mix(major_pool, extra_count,
                                                                 mix)}
            ELSE {Composed(user, base_total, extra_count, mix,
                           << gened, profed, << >> >>, gened \o profed)}
        Second(buckets, counts, gened) ==
            LET pool == WithoutIds(Get(buckets, PROFED_LABEL), Ids(gened))
            IN  IF Len(pool) < counts[2]
                THEN {NotEnoughError(user, counts[2], PROFED_LABEL, Len(pool))}
                ELSE UNION {FromSelection(o, LAMBDA profed : Extra(buckets, gened, profed)) :
                            o \in select_questions_with_mix(pool, counts[2], mix)}
        First(buckets, counts) ==
            LET pool == Get(buckets, GENED_LABEL)
            IN  IF Len(pool) < counts[1]
                THEN {NotEnoughError(user, counts[1], GENED_LABEL, Len(pool))}
                ELSE UNION {FromSelection(o, LAMBDA gened : Second(buckets, counts, gened)) :
                            o \in select_questions_with_mix(pool, counts[1], mix)}
    IN  UNION {First(buckets, counts) :
                 buckets \in {FillBuckets(question_list, profile, labels)},
                 counts \in {LetSplitCounts(base_total)}}

\* every response start_exam can give `user` in the current state
StartResponses(user) ==
    LET profile == student_profiles[user]
    IN  IF user \notin DOMAIN student_profiles
        THEN {HttpError("start_exam", user, 400, << "Profile not found" >>)}
        ELSE
        LET exam_type == profile.target_licensure
            subjects == profile.assigned_review_subjects
            let_track == Lower(Strip(OrEmpty(profile.let_track)))
            is_elementary == StartsWith(let_track, "elementary")
            subject_filter == build_subject_filter(profile, subjects)
            filtered == FindQuestions(exam_type, subject_filter,
                                      exam_type # "LET" /\ Len(subject_filter) > 0)
            question_list == IF Len(subjects) > 0 /\ Len(filtered) = 0
                             THEN FindQuestions(exam_type, << >>, FALSE)
                             ELSE filtered
            major == Strip(OrEmpty(profile.major_specialization))
            secondary == exam_type = "LET" /\ ~is_elementary
            difficulty_mix == difficulty_mix_for_result(LatestResult(user, exam_type))
        IN  IF MajorRequired(secondary, major)
            THEN {HttpError("start_exam", user, 400,
                    << "Major specialization is required for secondary LET exams." >>)}
            ELSE IF exam_type = "LET"
            THEN UNION {ComposeLet(user, profile, list, t.base_total, t.extra_major_count,
                                   major, is_elementary, mix) :
                        list \in {question_list}, mix \in {difficulty_mix},
                        t \in {ExamTotals(FindSettingsDocument, secondary)}}
            ELSE UNION {{IF o.ok
                         THEN Composed(user, t.base_total, t.extra_major_count, mix,
                                       << << >>, << >>, << >> >>, o.questions)
                         ELSE NotEnoughError(user, o.needed, o.label, o.available) :
                         o \in select_questions_with_mix(
                                   list, t.base_total + t.extra_major_count, mix)} :
                        list \in {question_list}, mix \in {difficulty_mix},
                        t \in {ExamTotals(FindSettingsDocument, secondary)}}

\* a start that stores the default settings when it finds none
StartCreatingSettings(user) ==
    /\ resp' \in StartResponses(user)
    /\ app_settings' = IF Len(app_settings) > 0 THEN app_settings ELSE << DefaultSettings >>
    /\ UNCHANGED << student_profiles, questions, exam_results, audit_logs, now, instances >>

\* POST /exam/start
start_exam(user) ==
    /\ resp' \in StartResponses(user)
    /\ UNCHANGED << student_profiles, questions, app_settings, exam_results, audit_logs,
                    now, instances >>

(***************************************************************************)
(* Scoring: POST /exam/submit                                              *)
(* An answer sheet is the JSON object of the request in its own order:     *)
(* a sequence of << question id, chosen letter >> with distinct ids.       *)
(***************************************************************************)
DefaultPassingThreshold == 60

\* a lookup in the uploaded bank instead of the collection as it is now
FindInUpload(question_id) == SelectSeq(Bank, LAMBDA q : q._id = question_id)

\* an insert that stores the document twice
InsertTwice(collection, document) == Append(Append(collection, document), document)

\* db.<collection>.insert_one(document)
insert_one(collection, document) == Append(collection, document)

\* db.questions.find_one({"_id": ObjectId(question_id)}): empty, or the document
FindQuestion(question_id) == SelectSeq(questions, LAMBDA q : q._id = question_id)

IncorrectEntry(question, selected) ==
    [id |-> question._id, subject |-> question.subject, topic |-> question.topic,
     difficulty |-> question.difficulty, question |-> question.question,
     correct_answer |-> question.answer, student_answer |-> selected,
     reference |-> IF question.topic # "" THEN "Review: " \o question.topic
                   ELSE "Review this topic"]

\* statistics that count the questions of a bucket but never a correct answer
CountedTotalsOnly(subject_stats, bucket, correct) ==
    LET old == IF bucket \in DOMAIN subject_stats THEN subject_stats[bucket]
               ELSE [correct |-> 0, total |-> 0]
    IN  [k \in DOMAIN subject_stats \cup {bucket} |->
            IF k = bucket THEN [correct |-> old.correct, total |-> old.total + 1]
            ELSE subject_stats[k]]

\* subject_stats after counting one question of `bucket`
Counted(subject_stats, bucket, correct) ==
    LET old == IF bucket \in DOMAIN subject_stats THEN subject_stats[bucket]
               ELSE [correct |-> 0, total |-> 0]
    IN  [k \in DOMAIN subject_stats \cup {bucket} |->
            IF k = bucket
            THEN [correct |-> old.correct + (IF correct THEN 1 ELSE 0), total |-> old.total + 1]
            ELSE subject_stats[k]]

\* totals that give credit only to questions that fall in a bucket
TallyBucketedOnly(acc, question, selected, bucket) ==
    LET right == selected = question.answer
        counted == bucket # NONE /\ bucket # ""
    IN  [score |-> acc.score + (IF right /\ counted THEN 1 ELSE 0),
         subject_stats |->
            IF counted THEN Counted(acc.subject_stats, bucket, right)
            ELSE acc.subject_stats,
         incorrect_questions |->
            IF right THEN acc.incorrect_questions
            ELSE Append(acc.incorrect_questions, IncorrectEntry(question, selected))]

\* the running totals after one question that was found, answered `selected`
Tally(acc, question, selected, bucket) ==
    LET right == selected = question.answer
    IN  [score |-> acc.score + (IF right THEN 1 ELSE 0),
         subject_stats |->
            IF bucket # NONE /\ bucket # ""
            THEN Counted(acc.subject_stats, bucket, right)
            ELSE acc.subject_stats,
         incorrect_questions |->
            IF right THEN acc.incorrect_questions
            ELSE Append(acc.incorrect_questions, IncorrectEntry(question, selected))]

\* a pass that reports a question under its stored subject instead of classifying it
StepUnderSubject(acc, profile, found, selected) ==
    IF Len(found) = 0 THEN acc
    ELSE Tally(acc, found[1], selected, found[1].subject)

\* one pass of the loop: a question that is not found is skipped
Step(acc, profile, found, selected) ==
    IF Len(found) = 0 THEN acc
    ELSE Tally(acc, found[1], selected, Bucket(found[1], profile))

\* the loop over payload.answers.items(), from position i on
RECURSIVE ScoreLoop(_, _, _, _)
ScoreLoop(profile, answers, i, acc) ==
    IF i > Len(answers) THEN acc
    ELSE ScoreLoop(profile, answers, i + 1,
                   Step(acc, profile, FindQuestion(answers[i][1]), answers[i][2]))

\* a verdict that passes only above the threshold
VerdictStrict(profile, total, done) ==
    LET percentage == IF total # 0 THEN Round2(done.score, total) ELSE 0
    IN  [exam_type |-> profile.target_licensure, score |-> done.score, total |-> total,
         percentage |-> percentage,
         result |-> IF percentage > profile.required_passing_threshold * 100
                    THEN "PASS" ELSE "FAIL",
         subject_performance |-> done.subject_stats,
         incorrect_questions |-> done.incorrect_questions]

\* the result fields computed after the loop has left `done`
Verdict(profile, total, done) ==
    LET percentage == IF total # 0 THEN Round2(done.score, total) ELSE 0
        passing_threshold ==
            IF "required_passing_threshold" \in DOMAIN profile
            THEN profile.required_passing_threshold ELSE DefaultPassingThreshold
    IN  [exam_type |-> profile.target_licensure, score |-> done.score, total |-> total,
         percentage |-> percentage,
         result |-> IF percentage >= passing_threshold * 100 THEN "PASS" ELSE "FAIL",
         subject_performance |-> done.subject_stats,
         incorrect_questions |-> done.incorrect_questions]

\* a grading whose total counts only the answers whose question is found
GradedOverFound(profile, answers) ==
    Verdict(profile, Len(SelectSeq(answers, LAMBDA a : Len(FindQuestion(a[1])) > 0)),
            ScoreLoop(profile, answers, 1,
                      [score |-> 0, subject_stats |-> << >>, incorrect_questions |-> << >>]))

\* the graded sheet: the fields of the result that do not depend on who submits or when
Graded(profile, answers) ==
    Verdict(profile, Len(answers),
            ScoreLoop(profile, answers, 1,
                      [score |-> 0, subject_stats |-> << >>, incorrect_questions |-> << >>]))

\* POST /exam/submit
submit_exam(user, answers) ==
    IF user \notin DOMAIN student_profiles
    THEN /\ resp' = HttpError("submit_exam", user, 400, << "Profile not found" >>)
         /\ UNCHANGED << student_profiles, questions, app_settings, exam_results,
                         audit_logs, now, instances >>
    ELSE IF \E i \in 1..Len(answers) : answers[i][1] \notin WellFormedIds
    THEN /\ resp' = HttpError("submit_exam", user, 500, << "InvalidId" >>)
         /\ UNCHANGED << student_profiles, questions, app_settings, exam_results,
                         audit_logs, now, instances >>
    ELSE \E g \in {Graded(student_profiles[user], answers)} :
             /\ exam_results' =
                   insert_one(exam_results,
                          [user_id |-> user, exam_type |-> g.exam_type, score |-> g.score,
                           total |-> g.total, percentage |-> g.percentage,
                           result |-> g.result,
                           subject_performance |-> g.subject_performance,
                           incorrect_questions |-> g.incorrect_questions,
                           created_at |-> now])
             /\ now' = now + 1
             /\ audit_logs' = log_event_async(user, "exam_submit")
             /\ resp' = [op |-> "submit_exam", user |-> user, status |-> 200,
                         request |-> answers,
                         exam_type |-> g.exam_type, score |-> g.score, total |-> g.total,
                         percentage |-> g.percentage, result |-> g.result,
                         subject_performance |-> g.subject_performance,
                         incorrect_questions |-> g.incorrect_questions]
             /\ UNCHANGED << student_profiles, questions, app_settings, instances >>

(***************************************************************************)
(* Profiles: POST /profile                                                 *)
(***************************************************************************)
LICENSURE_RULES ==
    [licensure \in {"LET", "CPA", "Internal Certification"} |->
        IF licensure = "LET"
        THEN [subjects |-> {"GenEd", "ProfEd", "Specialization"}, passing_threshold |-> 75]
        ELSE IF licensure = "CPA"
        THEN [subjects |-> {"FAR", "AFAR", "Auditing", "MAS", "RFBT", "Taxation"},
              passing_threshold |-> 75]
        ELSE [subjects |-> {"Core", "Applied", "Practicum"}, passing_threshold |-> 80]]

SecondaryMajors == {"Mathematics", "Filipino", "Social Studies", "English"}

\* the validation of save_profile: the reason the form is turned down, or NONE
ProfileRejection(form) ==
    LET licensure == form.target_licensure
        rule == LICENSURE_RULES[licensure]
        allowed_subjects ==
            IF licensure = "LET" /\ form.let_track = "Elementary"
            THEN rule.subjects \ {"Specialization"} ELSE rule.subjects
        given == form.assigned_review_subjects
    IN  IF licensure \notin DOMAIN LICENSURE_RULES THEN "Invalid target licensure"
        ELSE IF licensure = "LET" /\ form.let_track \notin {"Elementary", "Secondary"}
        THEN "LET track is required"
        ELSE IF /\ licensure = "LET" /\ form.let_track = "Secondary"
                /\ form.major_specialization \notin SecondaryMajors
        THEN "LET major is required for Secondary"
        ELSE IF form.required_passing_threshold # rule.passing_threshold
        THEN "Passing threshold must match the licensure"
        ELSE IF Len(given) = 0 THEN "Assigned review subjects are required"
        ELSE IF ~({given[i] : i \in 1..Len(given)} \subseteq allowed_subjects)
        THEN "Invalid review subjects for licensure"
        ELSE NONE

\* the document save_profile stores for an accepted form
ProfileDocument(form) ==
    [form EXCEPT
        !.major_specialization =
            IF form.target_licensure = "LET" /\ form.let_track # "Secondary"
            THEN "Elementary" ELSE @,
        !.let_track = IF form.target_licensure # "LET" THEN NONE ELSE @]

save_profile(user, form) ==
    IF ProfileRejection(form) # NONE
    THEN /\ resp' = HttpError("save_profile", user, 400, << ProfileRejection(form) >>)
         /\ UNCHANGED << student_profiles, questions, app_settings, exam_results,
                         audit_logs, now, instances >>
    ELSE /\ student_profiles' =
               [u \in DOMAIN student_profiles \cup {user} |->
                   IF u = user THEN ProfileDocument(form) ELSE student_profiles[u]]
         /\ audit_logs' = log_event_async(user, "profile_save")
         /\ resp' = [op |-> "save_profile", user |-> user, status |-> 200,
                     profile |-> ProfileDocument(form)]
         /\ UNCHANGED << questions, app_settings, exam_results, now, instances >>

(***************************************************************************)
(* Settings: get_or_create_settings and the admin endpoints                *)
(***************************************************************************)
MinTimeLimit == 10
MaxTimeLimit == 240
MinQuestionCount == 10
MaxQuestionCount == 200
MinMajorCount == 0
MaxMajorCount == 200

\* the field constraints of SettingsUpdate
SettingsUpdate(form) ==
    /\ form.exam_time_limit_minutes \in MinTimeLimit..MaxTimeLimit
    /\ form.exam_question_count \in MinQuestionCount..MaxQuestionCount
    /\ form.exam_major_question_count \in MinMajorCount..MaxMajorCount

\* the collection after get_or_create_settings has run without interruption
get_or_create_settings ==
    IF Len(app_settings) > 0 THEN app_settings ELSE << DefaultSettings >>

SettingsView(settings) ==
    [exam_time_limit_minutes |-> settings.exam_time_limit_minutes,
     exam_question_count |-> settings.exam_question_count,
     exam_major_question_count |->
        IF "exam_major_question_count" \in DOMAIN settings
        THEN settings.exam_major_question_count ELSE DefaultMajorCount]

\* GET /admin/settings
get_settings(user) ==
    IF user \notin Admins
    THEN /\ resp' = HttpError("get_settings", user, 403, << "Not authorized" >>)
         /\ UNCHANGED << student_profiles, questions, app_settings, exam_results,
                         audit_logs, now, instances >>
    ELSE /\ app_settings' = get_or_create_settings
         /\ resp' = [op |-> "get_settings", user |-> user, status |-> 200,
                     settings |-> SettingsView(get_or_create_settings[1])]
         /\ UNCHANGED << student_profiles, questions, exam_results, audit_logs, now,
                         instances >>

\* an update that writes the record before it checks the counts against the bank
UpdateSettingsThenCheck(user, form) ==
    LET total_questions == Len(questions)
        updated == SettingsForm(form.exam_time_limit_minutes, form.exam_question_count,
                                form.exam_major_question_count)
    IN  IF ~SettingsUpdate(form) \/ user \notin Admins
        THEN /\ resp' = HttpError("update_settings", user,
                                  IF ~SettingsUpdate(form) THEN 422 ELSE 403,
                                  << "refused" >>)
             /\ UNCHANGED << student_profiles, questions, app_settings, exam_results,
                             audit_logs, now, instances >>
        ELSE /\ app_settings' = [get_or_create_settings EXCEPT ![1] = updated]
             /\ audit_logs' = log_event_async(NONE, "settings_update")
             /\ resp' = IF \/ form.exam_question_count > total_questions
                           \/ form.exam_major_question_count > total_questions
                        THEN HttpError("update_settings", user, 400, << "exceeds" >>)
                        ELSE [op |-> "update_settings", user |-> user, status |-> 200,
                              settings |-> SettingsView(updated)]
             /\ UNCHANGED << student_profiles, questions, exam_results, now, instances >>

\* PUT /admin/settings
update_settings(user, form) ==
    LET total_questions == Len(questions)
        refusal ==
            IF ~SettingsUpdate(form) THEN << 422, "validation error" >>
            ELSE IF user \notin Admins THEN << 403, "Not authorized" >>
            ELSE IF form.exam_question_count > total_questions
            THEN << 400, "Exam item count exceeds the available question bank." >>
            ELSE IF form.exam_major_question_count > total_questions
            THEN << 400, "Major item count exceeds the available question bank." >>
            ELSE << >>
        \* $set of the three fields: a document that lacks one gets it
        updated == SettingsForm(form.exam_time_limit_minutes, form.exam_question_count,
                                form.exam_major_question_count)
    IN  IF refusal # << >>
        THEN /\ resp' = HttpError("update_settings", user, refusal[1], << refusal[2] >>)
             /\ UNCHANGED << student_profiles, questions, app_settings, exam_results,
                             audit_logs, now, instances >>
        ELSE /\ app_settings' = [get_or_create_settings EXCEPT ![1] = updated]
             /\ audit_logs' = log_event_async(NONE, "settings_update")
             /\ resp' = [op |-> "update_settings", user |-> user, status |-> 200,
                         settings |-> SettingsView(updated)]
             /\ UNCHANGED << student_profiles, questions, exam_results, now, instances >>

(***************************************************************************)
(* Bank maintenance: POST /questions/cleanup, DELETE /questions            *)
(***************************************************************************)
Staff == Admins

WATERMARK_PATTERNS ==
    << "this file was submitted to www.teachpinas.com", "get more free let reviewers",
       "www.teachpinas.com" >>

\* re.sub(pattern + ".*", "", text, flags=IGNORECASE).strip() on a one-line text
CutFrom(text, pattern) ==
    LET hits == {i \in 1..(Len(text) - Len(pattern) + 1) :
                   Lower(SubSeq(text, i, i + Len(pattern) - 1)) = pattern}
    IN  Strip(IF hits = {} THEN text
              ELSE SubSeq(text, 1, (CHOOSE i \in hits : \A j \in hits : i <= j) - 1))

\* \d{1,3}\. matches at position i of text
NumberDotAt(text, i) ==
    \E k \in 1..3 :
       /\ i + k <= Len(text)
       /\ \A j \in i..(i + k - 1) : CharIn(CharAt(text, j), Digits)
       /\ CharAt(text, i + k) = "."

\* text[:start].strip() for the leftmost match among the 0-based starts, else NONE
TruncateAt(text, starts) ==
    IF starts = {} THEN NONE
    ELSE Strip(SubSeq(text, 1, CHOOSE i \in starts : \A j \in starts : i <= j))

\* the cut at an item number that follows the text, on the text without watermarks
CutAtItemNumber(text) ==
    LET \* (?:^|\s|\.)\d{1,3}\.
        appended == {i \in 0..(Len(text) - 1) :
                       \/ i = 0 /\ NumberDotAt(text, 1)
                       \/ /\ IsSpace(CharAt(text, i + 1)) \/ CharAt(text, i + 1) = "."
                          /\ NumberDotAt(text, i + 2)}
        \* (?<=[A-Za-z)])\d{1,3}\.
        glued == {i \in 1..(Len(text) - 1) :
                    /\ CharIn(CharAt(text, i), Capitals \o Smalls \o ")")
                    /\ NumberDotAt(text, i + 1)}
    IN  IF appended # {} THEN TruncateAt(text, appended)
        ELSE IF glued # {} THEN TruncateAt(text, glued)
        ELSE text

sanitize_text(value) ==
    IF value = "" THEN value
    ELSE CutAtItemNumber(CutFrom(CutFrom(CutFrom(Strip(value), WATERMARK_PATTERNS[1]),
                                         WATERMARK_PATTERNS[2]), WATERMARK_PATTERNS[3]))

\* two or more option markers: \b[A-D]\.\s, case-insensitive
has_embedded_options(text) ==
    LET word(c) == IsAlnum(c) \/ c = "_"
        markers == {i \in 1..(Len(text) - 2) :
                      /\ CharIn(CharAt(text, i), "ABCDabcd")
                      /\ i = 1 \/ ~word(CharAt(text, i - 1))
                      /\ CharAt(text, i + 1) = "."
                      /\ IsSpace(CharAt(text, i + 2))}
    IN  Cardinality(markers) >= 2

RequiredFields ==
    {"exam_type", "subject", "topic", "difficulty", "question", "a", "b", "c", "d", "answer"}

is_invalid_question(data) ==
    \/ \E field \in RequiredFields : Strip(data[field]) = ""
    \/ data.difficulty \notin {"Easy", "Medium", "Hard"}
    \/ data.answer \notin {"A", "B", "C", "D"}
    \/ \E field \in {"question", "a", "b", "c", "d"} : has_embedded_options(data[field])

\* {**doc, **sanitize_question_doc(doc)}
sanitize_question_doc(doc) ==
    [doc EXCEPT !.topic = sanitize_text(@), !.question = sanitize_text(@),
                !.a = sanitize_text(@), !.b = sanitize_text(@),
                !.c = sanitize_text(@), !.d = sanitize_text(@)]

\* sanitize_question_doc and is_invalid_question tabulated for the documents of Bank;
\* any other document is computed
TabulatedDocuments == {Bank[i] : i \in 1..Len(Bank)}
CleanupTable ==
    [doc \in TabulatedDocuments |->
        [merged |-> sanitize_question_doc(doc),
         invalid |-> is_invalid_question(sanitize_question_doc(doc))]]

\* what cleanup does with one document: the merged document, and whether it is deleted
Cleaned(doc) ==
    IF doc \in TabulatedDocuments THEN CleanupTable[doc]
    ELSE [merged |-> sanitize_question_doc(doc),
          invalid |-> is_invalid_question(sanitize_question_doc(doc))]

\* the documents left after the pass over the collection, from position i on
RECURSIVE Kept(_, _)
Kept(docs, i) ==
    IF i > Len(docs) THEN << >>
    ELSE (LET c == Cleaned(docs[i]) IN IF c.invalid THEN << >> ELSE << c.merged >>)
         \o Kept(docs, i + 1)

\* POST /questions/cleanup
cleanup_questions(user) ==
    IF user \notin Staff
    THEN /\ resp' = HttpError("cleanup_questions", user, 403, << "Not authorized" >>)
         /\ UNCHANGED << student_profiles, questions, app_settings, exam_results,
                         audit_logs, now, instances >>
    ELSE \E kept \in {Kept(questions, 1)} :
             /\ questions' = kept
             /\ resp' = [op |-> "cleanup_questions", user |-> user, status |-> 200,
                         deleted |-> Len(questions) - Len(kept)]
             /\ UNCHANGED << student_profiles, app_settings, exam_results, audit_logs,
                             now, instances >>

\* DELETE /questions
clear_questions(user) ==
    IF user \notin Staff
    THEN /\ resp' = HttpError("clear_questions", user, 403, << "Not authorized" >>)
         /\ UNCHANGED << student_profiles, questions, app_settings, exam_results,
                         audit_logs, now, instances >>
    ELSE /\ questions' = << >>
         /\ resp' = [op |-> "clear_questions", user |-> user, status |-> 200,
                     deleted |-> Len(questions)]
         /\ UNCHANGED << student_profiles, app_settings, exam_results, audit_logs,
                         now, instances >>

(***************************************************************************)
(* Start-up of an application instance: seed_questions, then               *)
(* get_or_create_settings, whose find_one and insert_one are two database  *)
(* round trips, then ensure_admin_user (it touches only the accounts).     *)
(***************************************************************************)
DEFAULT_QUESTIONS ==
    << Question("d01", "LET", "GenEd", "Reading", "Easy", "B"),
       Question("d02", "LET", "GenEd", "Math", "Medium", "B"),
       Question("d03", "LET", "GenEd", "Science", "Hard", "C"),
       Question("d04", "LET", "Mathematics", "Algebra", "Medium", "B"),
       Question("d05", "LET", "Science", "Biology", "Easy", "B"),
       Question("d06", "LET", "Social Studies", "History", "Medium", "A"),
       Question("d07", "LET", "English", "Grammar", "Easy", "C"),
       Question("d08", "LET", "Filipino", "Wika", "Medium", "A"),
       Question("d09", "LET", "P.E", "Fitness", "Easy", "C"),
       Question("d10", "CPA", "FAR", "Assets", "Hard", "C"),
       Question("d11", "CPA", "Taxation", "VAT", "Medium", "C"),
       Question("d12", "CPA", "Auditing", "Opinion", "Easy", "D") >>

seed_questions(i) ==
    /\ instances[i] = "boot"
    /\ instances' = [instances EXCEPT ![i] = "seeded"]
    /\ questions' = IF Len(questions) > 0 THEN questions ELSE DEFAULT_QUESTIONS
    /\ UNCHANGED << student_profiles, app_settings, exam_results, audit_logs, now, resp >>

\* settings = await db.app_settings.find_one({})
find_settings(i) ==
    /\ instances[i] = "seeded"
    /\ instances' = [instances EXCEPT
                        ![i] = IF Len(app_settings) > 0 THEN "ready" ELSE "missing"]
    /\ UNCHANGED << student_profiles, questions, app_settings, exam_results, audit_logs,
                    now, resp >>

\* result = await db.app_settings.insert_one(settings_data)
insert_settings(i) ==
    /\ instances[i] = "missing"
    /\ app_settings' = insert_one(app_settings, DefaultSettings)
    /\ instances' = [instances EXCEPT ![i] = "ready"]
    /\ UNCHANGED << student_profiles, questions, exam_results, audit_logs, now, resp >>

\* requests are served once an instance has started
Serving == \E i \in Instances : instances[i] = "ready"

(***************************************************************************)
(* Specifications                                                          *)
(***************************************************************************)
\* a deployment whose instances have started on the uploaded bank
Init ==
    /\ student_profiles = << >>
    /\ questions = Bank
    /\ app_settings = << DefaultSettings >>
    /\ exam_results = << >>
    /\ audit_logs = {}
    /\ now = 1
    /\ instances = [i \in Instances |-> "ready"]
    /\ resp = NoResponse

\* every sheet that answers some of `ids`, in their order, with letters of `letters`
Sheets(ids, letters) ==
    UNION {{[i \in 1..Cardinality(S) |-> << AtPositions(ids, S)[i], f[i] >>] :
              f \in [1..Cardinality(S) -> letters]} :
           S \in SUBSET (1..Len(ids))}

MaxResults == 2

PassingSheet == << << "g1", "B" >>, << "p1", "A" >> >>
FailingSheet == << << "p1", "A" >>, << "g1", "A" >>, << "f1", "A" >> >>
MalformedSheet == << << "g1", "B" >>, << "not-an-id", "A" >> >>

\* the exam life of two students: the admin sets 10 base and 2 major items,
\* students save profiles, start attempts and submit sheets
SaveLife == \E f \in {LetElementary, CpaForm} : save_profile("s1", f)
SaveOther == save_profile("s2", LetElementary)
Configure == update_settings("admin", SettingsForm(60, 10, 2))
Start == \E u \in Students : start_exam(u)
Submit ==
    /\ Len(exam_results) < MaxResults
    /\ \E u \in Students :
         \E sheet \in {PassingSheet, FailingSheet, MalformedSheet} : submit_exam(u, sheet)

Next == SaveLife \/ SaveOther \/ Configure \/ Start \/ Submit

Spec == Init /\ [][Next]_vars

\* composition under every kind of profile, several settings, a bank before and after
\* clean-up, and each verdict of a previous attempt
MaxComposeResults == 1

ComposeForms ==
    {LetElementary, LetSecondaryMath, CpaForm, CpaMasForm, CertForm,
     LetNoTrack, CpaBadSubjects}

ComposeSettings ==
    {SettingsForm(60, 10, 2), SettingsForm(60, 11, 2), SettingsForm(60, 10, 0),
     SettingsForm(60, 50, 2), SettingsForm(60, 10, 50), SettingsForm(5, 10, 2)}

SaveCompose == \E f \in ComposeForms : save_profile("s1", f)
ConfigureCompose ==
    \/ \E f \in ComposeSettings : update_settings("admin", f)
    \/ update_settings("s1", SettingsForm(60, 10, 2))
CleanupCompose == \E u \in {"admin", "s1"} : cleanup_questions(u)
StartCompose == start_exam("s1")
SubmitCompose ==
    /\ Len(exam_results) < MaxComposeResults
    /\ \E sheet \in {PassingSheet, FailingSheet} : submit_exam("s1", sheet)

NextCompose ==
    SaveCompose \/ ConfigureCompose \/ CleanupCompose \/ StartCompose \/ SubmitCompose

SpecCompose == Init /\ [][NextCompose]_vars

\* scoring of many sheets under both thresholds, on a bank before and after clean-up
MaxScored == 1

ScoreSheets ==
    Sheets(<< "g1", "m1", "g6" >>, {"A", "B"})
    \cup {sheet \in Sheets(<< "g1", "m1", "e1", "g6" >>, {"A", "B"}) : Len(sheet) = 4}
    \cup {<< << "e1", "A" >>, << "g1", "b" >> >>, MalformedSheet}

SaveScore == \E f \in {LetSecondaryMath, CertForm} : save_profile("s1", f)
CleanupScore == cleanup_questions("admin")
SubmitScore ==
    /\ Len(exam_results) < MaxScored
    /\ \E sheet \in ScoreSheets : submit_exam("s1", sheet)

NextScore == SaveScore \/ CleanupScore \/ SubmitScore

SpecScore == Init /\ [][NextScore]_vars

\* a fresh deployment: an empty database and two application instances starting up,
\* then the admin reading and updating the settings
InitFresh ==
    /\ student_profiles = << >>
    /\ questions = << >>
    /\ app_settings = << >>
    /\ exam_results = << >>
    /\ audit_logs = {}
    /\ now = 1
    /\ instances = [i \in Instances |-> "boot"]
    /\ resp = NoResponse

Seed == \E i \in Instances : seed_questions(i)
FindSettings == \E i \in Instances : find_settings(i)
InsertSettings == \E i \in Instances : insert_settings(i)
ReadSettings == Serving /\ \E u \in {"admin", "s1"} : get_settings(u)
WriteSettings ==
    /\ Serving
    /\ \E f \in {SettingsForm(60, 10, 2), SettingsForm(120, 12, 0), SettingsForm(60, 50, 2)} :
         update_settings("admin", f)
ClearBank == Serving /\ clear_questions("admin")

NextFresh ==
    Seed \/ FindSettings \/ InsertSettings \/ ReadSettings \/ WriteSettings \/ ClearBank

SpecFresh == InitFresh /\ [][NextFresh]_vars

\* start_exam over the documents it may find: no settings document, one without the
\* major count, the defaults, an updated one; no profile, a saved one, one without a
\* major; the large bank, or none
InitStart ==
    /\ student_profiles \in
          {[u \in {"s2"} |-> f] : f \in {SecondaryNoMajor, NoTrackNoMajor, ElementaryNoMajor}}
    /\ questions = LargeBank
    /\ app_settings \in {<< >>, << SettingsWithoutMajorCount >>}
    /\ exam_results = << >>
    /\ audit_logs = {}
    /\ now = 1
    /\ instances = [i \in Instances |-> "ready"]
    /\ resp = NoResponse

SaveStart ==
    \E f \in {LetElementary, LetSecondaryMath, CpaForm, CertForm} : save_profile("s1", f)
ConfigureStart == update_settings("admin", SettingsForm(60, 50, 0))
ReadStart == get_settings("admin")
ClearStart == clear_questions("admin")
StartStart == \E u \in Students : start_exam(u)

NextStart == SaveStart \/ ConfigureStart \/ ReadStart \/ ClearStart \/ StartStart

SpecStart == InitStart /\ [][NextStart]_vars

(***************************************************************************)
(* The quota planner on its own: a total and a weight table are drawn, and *)
(* the one step applies allocate_by_weight to them.                        *)
(***************************************************************************)
MaxQuotaTotal == 12
QuotaTotals == 0..MaxQuotaTotal \cup {DefaultQuestionCount}
WeightTable(easy, medium, hard) == [Easy |-> easy, Medium |-> medium, Hard |-> hard]
QuotaWeights ==
    {DEFAULT_DIFFICULTY_MIX, PASS_DIFFICULTY_MIX, FAIL_DIFFICULTY_MIX,
     WeightTable(33, 33, 34), WeightTable(58, 42, 0), WeightTable(50, 50, 50),
     WeightTable(10, 10, 10), WeightTable(0, 0, 0)}

InitQuota ==
    /\ student_profiles = << >>
    /\ questions = << >>
    /\ app_settings = << >>
    /\ exam_results = << >>
    /\ audit_logs = {}
    /\ now = 1
    /\ instances = [i \in Instances |-> "ready"]
    /\ resp \in {[op |-> "arguments", total |-> total, weights |-> weights] :
                    total \in QuotaTotals, weights \in QuotaWeights}

Allocate ==
    /\ resp.op = "arguments"
    /\ resp' = [op |-> "allocate_by_weight", total |-> resp.total,
                weights |-> resp.weights,
                counts |-> allocate_by_weight(resp.total, resp.weights)]
    /\ UNCHANGED << student_profiles, questions, app_settings, exam_results, audit_logs,
                    now, instances >>

NextQuota == Allocate
SpecQuota == InitQuota /\ [][NextQuota]_vars

(***************************************************************************)
(* The sampler on its own: a pool of stored questions (distinct ids), a    *)
(* target and a weight table are drawn, and the one step takes one of the  *)
(* outcomes of select_questions_with_mix for them.                         *)
(***************************************************************************)
MaxSelectTarget == 3
SelectBank == SelectSeq(Bank, LAMBDA q : q._id \in {"g1", "g2", "g3", "g5", "p1"})
SelectPools == {AtPositions(SelectBank, S) : S \in SUBSET (1..Len(SelectBank))}
SelectWeights ==
    {DEFAULT_DIFFICULTY_MIX, PASS_DIFFICULTY_MIX, FAIL_DIFFICULTY_MIX,
     WeightTable(50, 50, 50), WeightTable(10, 10, 10)}

InitSelect ==
    /\ student_profiles = << >>
    /\ questions = SelectBank
    /\ app_settings = << >>
    /\ exam_results = << >>
    /\ audit_logs = {}
    /\ now = 1
    /\ instances = [i \in Instances |-> "ready"]
    /\ resp \in {[op |-> "arguments", pool |-> pool, total |-> total, weights |-> weights] :
                    pool \in SelectPools, total \in 1..MaxSelectTarget,
                    weights \in SelectWeights}

Select ==
    /\ resp.op = "arguments"
    /\ \E outcome \in select_questions_with_mix(resp.pool, resp.total, resp.weights) :
          resp' = [op |-> "select_questions_with_mix", pool |-> resp.pool,
                   total |-> resp.total, weights |-> resp.weights, outcome |-> outcome]
    /\ UNCHANGED << student_profiles, questions, app_settings, exam_results, audit_logs,
                    now, instances >>

NextSelect == Select
SpecSelect == InitSelect /\ [][NextSelect]_vars

(***************************************************************************)
(* The classifier and the label comparison on their own: the arguments of  *)
(* one call are drawn, and the one step of each function applies it.       *)
(* Subjects are stored stripped (normalize_subject), topics as entered.    *)
(***************************************************************************)
ClassifierQuestions ==
    {[subject |-> subject, topic |-> topic] :
        subject \in {"ProfEd", "Professional Education", "Prof Ed Math", "GenEd",
                     "General Education", "Genetics", "Mathematics", "Math Major",
                     "English", "Specialization", "", NONE},
        topic \in {"Algebra", " Professional Education Ethics", "Mathematics", "", NONE}}
ClassifierProfiles ==
    {[target_licensure |-> licensure, major_specialization |-> major] :
        licensure \in {"LET"}, major \in {"Mathematics", " Mathematics ", "GenEd", "", NONE}}
    \cup {[target_licensure |-> "CPA", major_specialization |-> "Accountancy"]}
LabelArguments ==
    {"Social Science", "SocSci", "Mathematics Major", "Math", "English", "ProfEd",
     "Sciences", "Science", "Social Studies", "", NONE}

InitClassify ==
    /\ student_profiles = << >>
    /\ questions = << >>
    /\ app_settings = << >>
    /\ exam_results = << >>
    /\ audit_logs = {}
    /\ now = 1
    /\ instances = [i \in Instances |-> "ready"]
    /\ resp \in {[op |-> "classifier arguments", question |-> question,
                  profile |-> profile] :
                    question \in ClassifierQuestions, profile \in ClassifierProfiles}
                \cup {[op |-> "label arguments", a |-> a, b |-> b] :
                        a \in LabelArguments, b \in LabelArguments}

Classify ==
    /\ resp.op = "classifier arguments"
    /\ resp' = [op |-> "subject_bucket_for", question |-> resp.question,
                profile |-> resp.profile,
                bucket |-> subject_bucket_for(resp.question, resp.profile)]
    /\ UNCHANGED << student_profiles, questions, app_settings, exam_results, audit_logs,
                    now, instances >>

Compare ==
    /\ resp.op = "label arguments"
    /\ resp' = [op |-> "labels_equivalent", a |-> resp.a, b |-> resp.b,
                equivalent |-> labels_equivalent(resp.a, resp.b)]
    /\ UNCHANGED << student_profiles, questions, app_settings, exam_results, audit_logs,
                    now, instances >>

NextClassify == Classify \/ Compare
SpecClassify == InitClassify /\ [][NextClassify]_vars

(***************************************************************************)
(* Properties                                                              *)
(* A step is told from the response it leaves: every handler sets resp to  *)
(* a response that carries its own name, so a step (one that changes the   *)
(* state) ending with a start_exam response is a start_exam call.          *)
(***************************************************************************)
\* the number of questions the stored settings and the profile of `user` ask for
RequestedTotal(user) ==
    LET base == IF app_settings = << >> THEN DefaultQuestionCount
                ELSE app_settings[1].exam_question_count
        extra == IF app_settings = << >> THEN DefaultMajorCount
                 ELSE app_settings[1].exam_major_question_count
    IN  IF /\ student_profiles[user].target_licensure = "LET"
           /\ student_profiles[user].let_track # "Elementary"
        THEN base + extra ELSE base

\* C1: every successful start_exam composes exactly the requested number of questions:
\* base_total + extra_major_count for a LET profile that is not elementary, base_total
\* for any other profile
C1_ExactTotal ==
    [][(resp'.op = "start_exam" /\ resp'.status = 200)
          => Len(resp'.exam_questions) = RequestedTotal(resp'.user)]_vars

\* a secondary LET exam of 10 base and 2 extra major questions was composed
C1_Witness ==
    /\ resp.op = "start_exam" /\ resp.status = 200
    /\ resp.extra_major_count = 2
    /\ Len(resp.exam_questions) = 12

\* C2: in a composed exam no question id appears twice, and the three buckets (base
\* General Education, base Professional Education, extra major) share no question
C2_NoRepeats ==
    (resp.op = "start_exam" /\ resp.status = 200) =>
        /\ \A i, j \in 1..Len(resp.exam_questions) :
              i # j => resp.exam_questions[i]._id # resp.exam_questions[j]._id
        /\ \A b, c \in 1..3 :
              b # c => Ids(resp.chosen[b]) \cap Ids(resp.chosen[c]) = {}
        /\ Ids(resp.chosen[1]) \cup Ids(resp.chosen[2]) \cup Ids(resp.chosen[3])
              \subseteq Ids(resp.exam_questions)

\* an exam with all three buckets filled: 6 General Education and 2 extra major questions
C2_Witness ==
    /\ resp.op = "start_exam" /\ resp.status = 200
    /\ Len(resp.chosen[1]) = 6 /\ Len(resp.chosen[2]) = 5 /\ Len(resp.chosen[3]) = 2

StudentFields == {"id", "question", "a", "b", "c", "d", "difficulty"}

AnswerLetters == {"A", "B", "C", "D"}

LatestVerdict(user) ==
    LET mine == {i \in 1..Len(exam_results) :
                   /\ exam_results[i].user_id = user
                   /\ exam_results[i].exam_type = student_profiles[user].target_licensure}
    IN  IF mine = {} THEN NONE
        ELSE exam_results[CHOOSE i \in mine :
               \A j \in mine : exam_results[j].created_at <= exam_results[i].created_at].result

\* C4: the difficulty mix of a start_exam is decided by the verdict of the student's latest
\* stored result for the profile's exam type: none gives 0.40/0.40/0.20, PASS gives
\* 0.20/0.40/0.40, FAIL gives 0.60/0.30/0.10; no other student's or exam type's result counts
C4_AdaptiveMix ==
    [][(resp'.op = "start_exam" /\ resp'.status = 200) =>
          resp'.difficulty_mix =
             (IF LatestVerdict(resp'.user) = "PASS"
              THEN [Easy |-> 20, Medium |-> 40, Hard |-> 40]
              ELSE IF LatestVerdict(resp'.user) = "FAIL"
              THEN [Easy |-> 60, Medium |-> 30, Hard |-> 10]
              ELSE [Easy |-> 40, Medium |-> 40, Hard |-> 20])]_vars

\* s1 failed, then s2 passed, and s1's next exam still got the easier mix
C4_Witness ==
    /\ resp.op = "start_exam" /\ resp.status = 200 /\ resp.user = "s1"
    /\ resp.difficulty_mix = [Easy |-> 60, Medium |-> 30, Hard |-> 10]
    /\ Len(exam_results) = 2
    /\ exam_results[1].user_id = "s1" /\ exam_results[1].result = "FAIL"
    /\ exam_results[2].user_id = "s2" /\ exam_results[2].result = "PASS"

\* C5: at most one settings record exists in every reachable state
C5_AtMostOneSettings == Len(app_settings) <= 1

\* C6: a successful submit_exam inserts exactly one result, a failing one inserts none,
\* start_exam inserts none, and no step changes or removes a stored result
C6_AppendOnly ==
    [][/\ Len(exam_results') >= Len(exam_results)
       /\ SubSeq(exam_results', 1, Len(exam_results)) = exam_results
       /\ (resp'.op = "submit_exam" /\ resp'.status = 200)
             => Len(exam_results') = Len(exam_results) + 1
       /\ (resp'.op = "submit_exam" /\ resp'.status # 200)
             => exam_results' = exam_results
       /\ resp'.op = "start_exam" => exam_results' = exam_results]_vars

\* a submission was turned down after one result had been stored
C6_Witness ==
    /\ Len(exam_results) = 1
    /\ resp.op = "submit_exam" /\ resp.status = 500

Abs(x) == IF x < 0 THEN 0 - x ELSE x

\* C7: the percentage of every stored result is score / total * 100 rounded to two
\* decimals, that is a hundredth no further than half a hundredth from the quotient,
\* and 0 when total is 0
C7_PercentageRounded ==
    \A i \in 1..Len(exam_results) :
        IF exam_results[i].total = 0 THEN exam_results[i].percentage = 0
        ELSE 2 * Abs(exam_results[i].percentage * exam_results[i].total
                        - exam_results[i].score * 10000) <= exam_results[i].total

\* a result of 2 out of 3 is stored with 66.67
C7_Witness ==
    \E i \in 1..Len(exam_results) :
        /\ exam_results[i].score = 2 /\ exam_results[i].total = 3
        /\ exam_results[i].percentage = 6667

\* C8: the verdict of a submission is PASS exactly when its percentage is at least the
\* profile's required_passing_threshold, FAIL otherwise; an empty sheet gets FAIL
C8_VerdictByThreshold ==
    [][(resp'.op = "submit_exam" /\ resp'.status = 200) =>
          /\ resp'.result =
                (IF resp'.percentage
                       >= student_profiles[resp'.user].required_passing_threshold * 100
                 THEN "PASS" ELSE "FAIL")
          /\ exam_results'[Len(exam_results')].result = resp'.result
          /\ resp'.total = 0 => resp'.result = "FAIL"]_vars

\* exactly 75.00 passed a threshold of 75
C8_Witness ==
    \E i \in 1..Len(exam_results) :
        /\ exam_results[i].exam_type = "LET"
        /\ exam_results[i].percentage = 7500
        /\ exam_results[i].result = "PASS"

\* C9: a non-empty sheet whose every letter is the stored answer of its question gets
\* score = total, 100.00, no incorrect question and PASS
C9_AllCorrect ==
    [][(/\ resp'.op = "submit_exam" /\ resp'.status = 200
        /\ Len(resp'.request) > 0
        /\ \A i \in 1..Len(resp'.request) :
              \E k \in 1..Len(questions) :
                 /\ questions[k]._id = resp'.request[i][1]
                 /\ questions[k].answer = resp'.request[i][2])
          => /\ resp'.total = Len(resp'.request)
             /\ resp'.score = resp'.total
             /\ resp'.percentage = 10000
             /\ resp'.incorrect_questions = << >>
             /\ resp'.result = "PASS"]_vars

\* four answers, four right
C9_Witness ==
    /\ resp.op = "submit_exam" /\ resp.status = 200
    /\ resp.total = 4 /\ resp.score = 4 /\ resp.result = "PASS"

RECURSIVE SumTotals(_, _)
SumTotals(stats, buckets) ==
    IF buckets = {} THEN 0
    ELSE LET bucket == CHOOSE b \in buckets : TRUE
         IN  stats[bucket].total + SumTotals(stats, buckets \ {bucket})

\* C10: an answer whose question is no longer in the bank is skipped: the submission
\* succeeds and its result is stored, and the score, the bucket statistics and the
\* incorrect list count only the answers whose question is in the bank
C10_StaleSkipped ==
    [][resp'.op = "submit_exam" =>
          IF resp'.status = 200
          THEN \E live \in {{i \in 1..Len(resp'.request) :
                               resp'.request[i][1] \in Ids(questions)}} :
                  /\ Len(exam_results') = Len(exam_results) + 1
                  /\ exam_results'[Len(exam_results')].score = resp'.score
                  /\ resp'.score =
                        Cardinality({i \in live : \E k \in 1..Len(questions) :
                                        /\ questions[k]._id = resp'.request[i][1]
                                        /\ questions[k].answer = resp'.request[i][2]})
                  /\ Len(resp'.incorrect_questions) = Cardinality(live) - resp'.score
                  /\ \A i \in 1..Len(resp'.incorrect_questions) :
                        resp'.incorrect_questions[i].id \in Ids(questions)
                  /\ SumTotals(resp'.subject_performance,
                               DOMAIN resp'.subject_performance) <= Cardinality(live)
          ELSE resp'.detail \in {<< "Profile not found" >>, << "InvalidId" >>}]_vars

\* the four-answer sheet submitted after g6 had left the bank: three counted, none wrong
C10_Witness ==
    /\ resp.op = "submit_exam" /\ resp.status = 200
    /\ resp.request = << << "g1", "B" >>, << "m1", "B" >>, << "e1", "A" >>, << "g6", "A" >> >>
    /\ resp.total = 4 /\ resp.score = 3
    /\ resp.incorrect_questions = << >>

\* C11: a submission with an answer letter outside A, B, C, D is rejected: it is not
\* scored and no result is stored for it
C11_MalformedLetterRejected ==
    [][(resp'.op = "submit_exam" /\ resp'.status = 200) =>
          \A i \in 1..Len(resp'.request) : resp'.request[i][2] \in AnswerLetters]_vars

MajorRequiredDetail == << "Major specialization is required for secondary LET exams." >>

\* C12: start_exam fails with "profile not found" for a user without a profile and with
\* "major required" for a LET profile that is not on the elementary track and has no major,
\* whatever the bank holds, and produces no exam
C12_EarlyFailures ==
    [][resp'.op = "start_exam" =>
          /\ resp'.user \notin DOMAIN student_profiles
                => resp'.status = 400 /\ resp'.detail = << "Profile not found" >>
          /\ (/\ resp'.user \in DOMAIN student_profiles
              /\ student_profiles[resp'.user].target_licensure = "LET"
              /\ student_profiles[resp'.user].let_track # "Elementary"
              /\ student_profiles[resp'.user].major_specialization \in {"", NONE})
                => resp'.status = 400 /\ resp'.detail = MajorRequiredDetail]_vars

\* the major was asked for although the bank was empty
C12_Witness ==
    /\ resp.op = "start_exam" /\ resp.status = 400
    /\ resp.detail = MajorRequiredDetail
    /\ questions = << >>

\* C14: start_exam, whether it succeeds or fails, leaves every collection as it was; it
\* creates no settings record when there is none
C14_StartWritesNothing ==
    [][resp'.op = "start_exam" =>
          UNCHANGED << student_profiles, questions, app_settings, exam_results,
                       audit_logs >>]_vars

\* an exam was composed while no settings record existed, and none exists after it
C14_Witness ==
    /\ resp.op = "start_exam" /\ resp.status = 200
    /\ app_settings = << >>

\* C15: without a settings record start_exam composes with base total 50 and extra major
\* count 50; with a record it uses the record's exam_question_count and
\* exam_major_question_count (50 when the record lacks the field); the extra major count is
\* added for LET profiles that are not on the elementary track and is 0 for every other
C15_TotalsFromSettings ==
    [][(resp'.op = "start_exam" /\ resp'.status = 200) =>
          /\ resp'.base_total =
                (IF app_settings = << >> THEN 50 ELSE app_settings[1].exam_question_count)
          /\ resp'.extra_major_count =
                (IF /\ student_profiles[resp'.user].target_licensure = "LET"
                    /\ student_profiles[resp'.user].let_track # "Elementary"
                 THEN IF app_settings = << >> THEN 50
                      ELSE IF "exam_major_question_count" \in DOMAIN app_settings[1]
                      THEN app_settings[1].exam_major_question_count
                      ELSE 50
                 ELSE 0)
          /\ Len(resp'.exam_questions) = resp'.base_total + resp'.extra_major_count]_vars

\* a secondary LET exam of 50 + 50 questions composed without a settings record
C15_Witness ==
    /\ resp.op = "start_exam" /\ resp.status = 200
    /\ app_settings = << >>
    /\ resp.base_total = 50 /\ resp.extra_major_count = 50
    /\ Len(resp.exam_questions) = 100

NotEnoughMessage == "Not enough questions available for this track."

\* the bucket sizes and the quotas start_exam compares for the LET profile of `user`
LetShortfall(user, label) ==
    LET profile == student_profiles[user]
        secondary == profile.let_track = "Secondary"
        major == IF profile.major_specialization = NONE THEN ""
                 ELSE profile.major_specialization
        t == ExamTotals(FindSettingsDocument, secondary)
        counts == LetSplitCounts(t.base_total)
        buckets == FillBuckets(FindQuestions("LET", << >>, FALSE), profile,
                               {GENED_LABEL, PROFED_LABEL, label})
    IN  [gened |-> Len(buckets[GENED_LABEL]) < counts[1],
         profed |-> Len(buckets[PROFED_LABEL]) < counts[2]]

\* C13: every insufficient-pool failure of start_exam names the deficient bucket and
\* states the needed and the available count; for a LET exam the bucket is the first
\* deficient one in the order General Education, Professional Education, major
C13_ShortfallNamesBucket ==
    (resp.op = "start_exam" /\ resp.status = 400 /\ resp.detail[1] = NotEnoughMessage) =>
        /\ resp.detail[3] # NONE
        /\ resp.detail[2] > resp.detail[4]
        /\ student_profiles[resp.user].target_licensure = "LET"
              => \E short \in {LetShortfall(resp.user, GENED_LABEL)} :
                    \/ resp.detail[3] = GENED_LABEL /\ short.gened
                    \/ resp.detail[3] = PROFED_LABEL /\ ~short.gened /\ short.profed
                    \/ resp.detail[3] = "Major" /\ ~short.gened /\ ~short.profed

\* the sum of a quota over the difficulty levels
QuotaSum(counts) == SumSeq([i \in 1..Len(DIFFICULTY_LEVELS) |-> counts[DIFFICULTY_LEVELS[i]]])

\* C16: for every total and every weight table the counts of allocate_by_weight sum to
\* the total
C16_QuotaSumsToTotal ==
    resp.op = "allocate_by_weight" => QuotaSum(resp.counts) = resp.total

\* C17: each count of allocate_by_weight is int(total * weight) or one more, and is
\* within 1 of the exact product total * weight
C17_QuotaWithinOne ==
    resp.op = "allocate_by_weight" =>
        \A level \in LevelSet :
            /\ \E raw \in {FloatMul(resp.total, resp.weights[level])} :
                  resp.counts[level] \in {raw.int, raw.int + 1}
            /\ Abs(100 * resp.counts[level] - resp.total * resp.weights[level]) <= 100

\* thirds of ten: 3.3, 3.3 and 3.4 give 3, 3 and 4
C17_Witness ==
    /\ resp.op = "allocate_by_weight"
    /\ resp.total = 10
    /\ resp.weights = WeightTable(33, 33, 34)
    /\ resp.counts = WeightTable(3, 3, 4)

\* the buckets start_exam opens for a LET profile
LetBuckets(profile) ==
    {GENED_LABEL, PROFED_LABEL}
    \cup (IF profile.major_specialization \notin {NONE, ""} /\ profile.let_track # "Elementary"
          THEN {profile.major_specialization} ELSE {})

\* C18: every question of a LET exam produced by start_exam is classified by
\* subject_bucket_for into one of the buckets of the profile (General Education,
\* Professional Education, or the major when the track is not elementary); a question
\* classified as none, as "Specialization" or into a bucket the profile does not have
\* is never included
C18_EveryQuestionInABucket ==
    [][(/\ resp'.op = "start_exam" /\ resp'.status = 200
        /\ student_profiles'[resp'.user].target_licensure = "LET")
          => \A i \in 1..Len(resp'.exam_questions) :
                /\ subject_bucket_for(resp'.exam_questions[i], student_profiles'[resp'.user])
                      \in LetBuckets(student_profiles'[resp'.user])
                /\ subject_bucket_for(resp'.exam_questions[i], student_profiles'[resp'.user])
                      \notin {NONE, "Specialization"}]_vars

\* an exam of a secondary mathematics major composed while the bank holds a LET question
\* the classifier gives no bucket
C18_Witness ==
    /\ resp.op = "start_exam" /\ resp.status = 200
    /\ student_profiles[resp.user].target_licensure = "LET"
    /\ student_profiles[resp.user].major_specialization = "Mathematics"
    /\ \E i \in 1..Len(questions) :
          /\ questions[i].exam_type = "LET"
          /\ subject_bucket_for(questions[i], student_profiles[resp.user]) = NONE
    /\ \E i \in 1..Len(resp.exam_questions) :
          subject_bucket_for(resp.exam_questions[i], student_profiles[resp.user])
             = "Mathematics"

\* `subject` is one of the subjects of the list
InSubjects(subject, subjects) == \E i \in 1..Len(subjects) : subjects[i] = subject

\* start_exam has just composed an exam for a non-LET profile with assigned subjects
NonLetExamComposed ==
    /\ resp'.op = "start_exam" /\ resp'.status = 200
    /\ student_profiles'[resp'.user].target_licensure # "LET"
    /\ Len(student_profiles'[resp'.user].assigned_review_subjects) > 0

\* C19 as stated: for a non-LET profile with assigned subjects every question of the
\* composed exam has the profile's exam type and a subject of the assigned list
C19_OnlyAssignedSubjects ==
    [][NonLetExamComposed
          => \A i \in 1..Len(resp'.exam_questions) :
                /\ resp'.exam_questions[i].exam_type
                      = student_profiles'[resp'.user].target_licensure
                /\ InSubjects(resp'.exam_questions[i].subject,
                              student_profiles'[resp'.user].assigned_review_subjects)]_vars

\* C19 amended: every question of the composed exam has the profile's exam type, and a
\* subject of the assigned list whenever the bank holds at least one question of that
\* exam type with a subject of the list; when it holds none, the exam is composed from
\* all the questions of the exam type
C19_AssignedSubjectsUnlessNoneMatch ==
    [][NonLetExamComposed
          => /\ \A i \in 1..Len(resp'.exam_questions) :
                   resp'.exam_questions[i].exam_type
                      = student_profiles'[resp'.user].target_licensure
             /\ (\E j \in 1..Len(questions') :
                    /\ questions'[j].exam_type
                          = student_profiles'[resp'.user].target_licensure
                    /\ InSubjects(questions'[j].subject,
                                  student_profiles'[resp'.user].assigned_review_subjects))
                => \A i \in 1..Len(resp'.exam_questions) :
                      InSubjects(resp'.exam_questions[i].subject,
                                 student_profiles'[resp'.user].assigned_review_subjects)]_vars

\* a CPA exam of ten questions composed while the bank holds CPA questions of a subject
\* outside the assigned list
C19_Witness ==
    /\ resp.op = "start_exam" /\ resp.status = 200
    /\ student_profiles[resp.user] = CpaForm
    /\ Len(resp.exam_questions) = 10
    /\ \E j \in 1..Len(questions) :
          /\ questions[j].exam_type = "CPA"
          /\ ~InSubjects(questions[j].subject, CpaForm.assigned_review_subjects)
    /\ \A i \in 1..Len(resp.exam_questions) :
          InSubjects(resp.exam_questions[i].subject, CpaForm.assigned_review_subjects)

\* C20: for a target above 0, select_questions_with_mix fails or returns exactly target
\* questions, pairwise distinct and all taken from the pool
C20_ExactlyTargetFromPool ==
    (resp.op = "select_questions_with_mix" /\ resp.total > 0 /\ resp.outcome.ok) =>
        /\ Len(resp.outcome.questions) = resp.total
        /\ \A i, j \in 1..Len(resp.outcome.questions) :
              i # j => resp.outcome.questions[i] # resp.outcome.questions[j]
        /\ \A i \in 1..Len(resp.outcome.questions) :
              \E k \in 1..Len(resp.pool) : resp.pool[k] = resp.outcome.questions[i]

\* how many questions of `pool` have the difficulty `level`
Available(pool, level) == Len(SelectSeq(pool, LAMBDA q : q.difficulty = level))

\* what the per-difficulty phase takes of each level: min(quota, available)
LevelTakes(pool, total, weights) ==
    [i \in 1..Len(DIFFICULTY_LEVELS) |->
        LET quota == allocate_by_weight(total, weights)[DIFFICULTY_LEVELS[i]]
            available == Available(pool, DIFFICULTY_LEVELS[i])
        IN  IF quota <= 0 THEN 0 ELSE IF available < quota THEN available ELSE quota]

\* C21: the per-difficulty phase of select_questions_with_mix takes min(quota, available)
\* questions of each level, in the order Easy, Medium, Hard, and a shortfall against the
\* target is filled with not-yet-selected questions of the pool so that the list has
\* exactly target questions
C21_PerLevelThenFill ==
    (resp.op = "select_questions_with_mix" /\ resp.outcome.ok) =>
        \E takes \in {LevelTakes(resp.pool, resp.total, resp.weights)} :
          LET qs == resp.outcome.questions
              first(i) == SumSeq(SubSeq(takes, 1, i - 1))
          IN  /\ Len(qs) >= SumSeq(takes)
              /\ \A i \in 1..Len(DIFFICULTY_LEVELS) :
                    \A k \in (first(i) + 1)..(first(i) + takes[i]) :
                        qs[k].difficulty = DIFFICULTY_LEVELS[i]
              /\ IF SumSeq(takes) < resp.total THEN Len(qs) = resp.total
                 ELSE Len(qs) = SumSeq(takes)
              /\ \A k, l \in 1..Len(qs) : k # l => qs[k]._id # qs[l]._id
              /\ \A k \in 1..Len(qs) : \E n \in 1..Len(resp.pool) : resp.pool[n] = qs[k]

\* three Easy questions and a target of 3 under the default mix (quota 1/1/1): one Easy
\* question is taken for the Easy quota, the Medium and Hard levels are empty, and the two
\* missing questions are filled from the remaining Easy ones
C21_Witness ==
    /\ resp.op = "select_questions_with_mix" /\ resp.outcome.ok
    /\ resp.total = 3
    /\ resp.weights = DEFAULT_DIFFICULTY_MIX
    /\ LevelTakes(resp.pool, resp.total, resp.weights) = << 1, 0, 0 >>
    /\ Len(resp.outcome.questions) = 3

\* the largest-remainder quota of `total` over the weights in exact arithmetic:
\* floor(total * weight), and one more for the levels that come first by descending
\* fractional part (ties to the earlier level) while units of the remainder are left
ExactQuota(total, weights) ==
    LET n == Len(DIFFICULTY_LEVELS)
        pct(i) == weights[DIFFICULTY_LEVELS[i]]
        base(i) == (total * pct(i)) \div 100
        frac(i) == (total * pct(i)) % 100
        remainder == total - SumSeq([i \in 1..n |-> base(i)])
        rank(i) == 1 + Cardinality({j \in 1..n :
                                      frac(j) > frac(i) \/ (frac(j) = frac(i) /\ j < i)})
    IN  ByLevel([i \in 1..n |-> base(i) + (IF rank(i) <= remainder THEN 1 ELSE 0)])

\* C22: allocate_by_weight gives every level floor(N * weight) and hands the remaining
\* units, one each, to the levels in descending order of fractional part, ties going to
\* the earlier level of Easy, Medium, Hard; 0.4/0.4/0.2 of 10 is 4/4/2 and
\* 0.33/0.33/0.34 of 10 is 3/3/4
C22_LargestRemainderTiesToEarlier ==
    resp.op = "allocate_by_weight" =>
        /\ resp.counts = ExactQuota(resp.total, resp.weights)
        /\ (resp.total = 10 /\ resp.weights = DEFAULT_DIFFICULTY_MIX)
              => resp.counts = WeightTable(4, 4, 2)
        /\ (resp.total = 10 /\ resp.weights = WeightTable(33, 33, 34))
              => resp.counts = WeightTable(3, 3, 4)

\* how many of the questions `qs` the classifier puts in `label` for `profile`
InBucket(qs, profile, label) ==
    Cardinality({i \in 1..Len(qs) : subject_bucket_for(qs[i], profile) = label})

\* C23: a successful LET composition holds q_G General Education and q_P Professional
\* Education questions with q_G + q_P = base_total and q_G - q_P in {0, 1}, plus exactly
\* extra_major_count questions of the major bucket for a profile that is not elementary
\* and none for an elementary one
C23_LetSplit ==
    [][(/\ resp'.op = "start_exam" /\ resp'.status = 200
        /\ student_profiles'[resp'.user].target_licensure = "LET")
          => \E profile \in {student_profiles'[resp'.user]} :
             \E q_G \in {InBucket(resp'.exam_questions, profile, GENED_LABEL)} :
             \E q_P \in {InBucket(resp'.exam_questions, profile, PROFED_LABEL)} :
             \E q_M \in {InBucket(resp'.exam_questions, profile,
                                  profile.major_specialization)} :
                /\ q_G + q_P = resp'.base_total
                /\ q_G - q_P \in {0, 1}
                /\ q_G + q_P + q_M = Len(resp'.exam_questions)
                /\ IF profile.let_track = "Elementary" THEN q_M = 0
                   ELSE q_M = resp'.extra_major_count]_vars

\* an odd base total of 11 split 6 and 5, with 2 extra questions of the major
C23_Witness ==
    /\ resp.op = "start_exam" /\ resp.status = 200
    /\ student_profiles[resp.user] = LetSecondaryMath
    /\ resp.base_total = 11 /\ resp.extra_major_count = 2
    /\ InBucket(resp.exam_questions, LetSecondaryMath, GENED_LABEL) = 6
    /\ InBucket(resp.exam_questions, LetSecondaryMath, PROFED_LABEL) = 5
    /\ InBucket(resp.exam_questions, LetSecondaryMath, "Mathematics") = 2

\* the stored question an answer of the sheet refers to
Answered(answer) == CHOOSE q \in {questions[k] : k \in 1..Len(questions)} : q._id = answer[1]

\* C24: each bucket of subject_performance has as total the number of answered questions
\* found in the bank that subject_bucket_for puts in that bucket, and as correct the number
\* of those answered with the stored letter; an answered question without a bucket is in
\* none of them but counts in the overall total and, when correct, in the score
C24_SubjectPerformance ==
    [][(resp'.op = "submit_exam" /\ resp'.status = 200)
          => \E profile \in {student_profiles'[resp'.user]} :
             \E found \in {{i \in 1..Len(resp'.request) :
                              resp'.request[i][1] \in Ids(questions)}} :
               LET bucket(i) == subject_bucket_for(Answered(resp'.request[i]), profile)
                   right(i) == resp'.request[i][2] = Answered(resp'.request[i]).answer
               IN  /\ DOMAIN resp'.subject_performance
                         = {bucket(i) : i \in found} \ {NONE, ""}
                   /\ \A b \in DOMAIN resp'.subject_performance :
                         /\ resp'.subject_performance[b].total
                               = Cardinality({i \in found : bucket(i) = b})
                         /\ resp'.subject_performance[b].correct
                               = Cardinality({i \in found : bucket(i) = b /\ right(i)})
                   /\ resp'.total = Len(resp'.request)
                   /\ resp'.score = Cardinality({i \in found : right(i)})]_vars

\* a sheet of a mathematics major with a correct answer to an English question, which has
\* no bucket: it is in the score and in no bucket
C24_Witness ==
    /\ resp.op = "submit_exam" /\ resp.status = 200
    /\ student_profiles[resp.user].major_specialization = "Mathematics"
    /\ \E i \in 1..Len(resp.request) : resp.request[i] = << "e1", "A" >>
    /\ "e1" \in Ids(questions)
    /\ DOMAIN resp.subject_performance = {GENED_LABEL, "Mathematics"}
    /\ resp.score = 1 + resp.subject_performance[GENED_LABEL].correct
                      + resp.subject_performance["Mathematics"].correct

\* the signals subject_bucket_for reads in a question, for a profile
Signals(question, profile) ==
    LET subject == Strip(OrEmpty(question.subject))
        topic == Lower(Strip(OrEmpty(question.topic)))
        major == Strip(OrEmpty(profile.major_specialization))
    IN  [subject |-> subject, major |-> major,
         professional |->
            \/ Lower(subject) \in {"profed", "professional education", "professional ed"}
            \/ StartsWith(Lower(subject), "prof")
            \/ StartsWith(topic, "professional education"),
         general |->
            \/ Lower(subject) \in {"gened", "general education"}
            \/ StartsWith(Lower(subject), "gen"),
         of_major |-> labels_equivalent(subject, major) \/ labels_equivalent(topic, major)]

\* C25: for a LET profile a professional-education signal gives Professional Education
\* whatever else the question signals; otherwise a general-education subject gives General
\* Education; otherwise a subject or topic equivalent to a non-empty major gives the
\* major; otherwise the bucket is "Specialization" without a major and none with one.
\* For another profile the bucket is the subject, or "General" when it is empty
C25_ClassifierPrecedence ==
    resp.op = "subject_bucket_for" =>
        \E s \in {Signals(resp.question, resp.profile)} :
            IF resp.profile.target_licensure # "LET"
            THEN resp.bucket = (IF s.subject = "" THEN "General" ELSE s.subject)
            ELSE /\ s.professional => resp.bucket = PROFED_LABEL
                 /\ (~s.professional /\ s.general) => resp.bucket = GENED_LABEL
                 /\ (~s.professional /\ ~s.general /\ s.major # "" /\ s.of_major)
                       => resp.bucket = s.major
                 /\ (~s.professional /\ ~s.general /\ s.major # "" /\ ~s.of_major)
                       => resp.bucket = NONE
                 /\ (~s.professional /\ ~s.general /\ s.major = "")
                       => resp.bucket = "Specialization"

\* a question whose subject is the major and whose topic signals professional education
C25_Witness ==
    /\ resp.op = "subject_bucket_for"
    /\ resp.question = [subject |-> "Mathematics", topic |-> " Professional Education Ethics"]
    /\ resp.profile = [target_licensure |-> "LET", major_specialization |-> "Mathematics"]
    /\ resp.bucket = PROFED_LABEL

\* C26: labels_equivalent holds of "Social Science" and "SocSci" and of "Mathematics
\* Major" and "Math", fails of "English" and "ProfEd", and fails whenever an argument is
\* empty or None, both being empty included
C26_LabelsEquivalent ==
    resp.op = "labels_equivalent" =>
        /\ (resp.a = "Social Science" /\ resp.b = "SocSci") => resp.equivalent
        /\ (resp.a = "Mathematics Major" /\ resp.b = "Math") => resp.equivalent
        /\ (resp.a = "English" /\ resp.b = "ProfEd") => ~resp.equivalent
        /\ (resp.a \in {"", NONE} \/ resp.b \in {"", NONE}) => ~resp.equivalent

\* the comparison of two empty labels has been made, and it fails
C26_Witness ==
    /\ resp.op = "labels_equivalent"
    /\ resp.a = "" /\ resp.b = ""
    /\ ~resp.equivalent

\* the bucket start_exam composed the k-th list of `chosen` for
ComposedLabel(k, profile) ==
    IF k = 1 THEN GENED_LABEL
    ELSE IF k = 2 THEN PROFED_LABEL
    ELSE Strip(OrEmpty(profile.major_specialization))

\* the total a submission reports under `label`
ReportedTotal(subject_performance, label) ==
    IF label \in DOMAIN subject_performance THEN subject_performance[label].total ELSE 0

C28_FailsOnlyOnShortPool ==
    (resp.op = "select_questions_with_mix" /\ resp.total > 0) =>
        /\ resp.outcome.ok <=> Len(resp.pool) >= resp.total
        /\ ~resp.outcome.ok =>
              /\ resp.outcome.needed = resp.total
              /\ resp.outcome.available = Len(resp.pool)

\* three questions are selected from a pool of three Easy ones under a mix that asks for
\* one of each level
C28_Witness ==
    /\ resp.op = "select_questions_with_mix" /\ resp.outcome.ok
    /\ resp.total = 3 /\ Len(resp.pool) = 3
    /\ resp.weights = DEFAULT_DIFFICULTY_MIX
    /\ \A i \in 1..Len(resp.pool) : resp.pool[i].difficulty = "Easy"

\* C29: the total of a submission is the number of answers of the sheet, stale ones
\* included, so the stored result has 0 <= score <= total and score plus the number of
\* incorrect questions equal to total minus the stale answers, and with a stale answer
\* the percentage is below the share of correct answers among the questions found
C29_StaleInTotal ==
    [][(resp'.op = "submit_exam" /\ resp'.status = 200)
          => \E stored \in {exam_results'[Len(exam_results')]} :
             \E stale \in {Cardinality({i \in 1..Len(resp'.request) :
                                          resp'.request[i][1] \notin Ids(questions)})} :
                /\ stored.total = Len(resp'.request)
                /\ 0 <= stored.score /\ stored.score <= stored.total
                /\ stored.score + Len(stored.incorrect_questions) = stored.total - stale
                /\ (stale > 0 /\ stored.score > 0)
                      => stored.percentage * (stored.total - stale) < 10000 * stored.score
                /\ stored.total = resp'.total /\ stored.score = resp'.score
                /\ stored.percentage = resp'.percentage]_vars

\* a stored result of four answers, one of them stale and the three others correct:
\* 75.00 percent
C29_Witness ==
    /\ Len(exam_results) > 0
    /\ exam_results[Len(exam_results)].total = 4
    /\ exam_results[Len(exam_results)].score = 3
    /\ exam_results[Len(exam_results)].incorrect_questions = << >>
    /\ exam_results[Len(exam_results)].percentage = 7500

\* C30: with a single settings record, an accepted update_settings leaves the requested
\* exam_question_count in the record, a refused one (caller not an admin, or a count above
\* the size of the bank) leaves the record as it was, no other call changes the record,
\* and start_exam takes its base total from the record: the base total of an exam is the
\* exam_question_count of the last accepted update
C30_BaseTotalFromLastUpdate ==
    [][/\ (resp'.op = "update_settings" /\ resp'.status = 200)
             => /\ Len(app_settings') = 1
                /\ app_settings'[1].exam_question_count = resp'.settings.exam_question_count
                /\ resp'.user \in Admins
                /\ resp'.settings.exam_question_count <= Len(questions)
                /\ resp'.settings.exam_major_question_count <= Len(questions)
       /\ ~(resp'.op = "update_settings" /\ resp'.status = 200)
             => app_settings' = app_settings
       /\ (resp'.op = "start_exam" /\ resp'.status = 200)
             => /\ Len(app_settings) = 1
                /\ resp'.base_total = app_settings[1].exam_question_count]_vars

\* an exam composed with the base total 11 that an accepted update left in the record
C30_Witness ==
    /\ resp.op = "start_exam" /\ resp.status = 200
    /\ resp.base_total = 11
    /\ Len(app_settings) = 1
    /\ app_settings[1].exam_question_count = 11
====
